---- MODULE Spec2Model ----
(***************************************************************************)
(* A model of citecheck's citation pipeline.                               *)
(*                                                                         *)
(* Texts are TLA+ strings, read character by character; positions are the  *)
(* 0-based offsets of the Python source, slices are half-open as in        *)
(* Python.  An Optional value is a sequence of length 0 (None) or 1.       *)
(***************************************************************************)
EXTENDS Integers, Sequences, FiniteSets, TLC

\* ------------------------------------------------------------------------
\* Optional values and Python's string primitives
\* ------------------------------------------------------------------------

None == <<>>

Some(x) == <<x>>

IsSome(o) == Len(o) = 1

Val(o) == o[1]

Min2(a, b) == IF a <= b THEN a ELSE b

Max2(a, b) == IF a >= b THEN a ELSE b

MinOf(S) == CHOOSE m \in S : \A n \in S : m <= n

MaxOf(S) == CHOOSE m \in S : \A n \in S : m >= n

\* the least element of S, or d when S is empty
MinOr(S, d) == IF S = {} THEN d ELSE MinOf(S)

\* the greatest element of S, or d when S is empty
MaxOr(S, d) == IF S = {} THEN d ELSE MaxOf(S)

UpperSeq == "ABCDEFGHIJKLMNOPQRSTUVWXYZ"

LowerSeq == "abcdefghijklmnopqrstuvwxyz"

DigitSeq == "0123456789"

UpperChars == {SubSeq(UpperSeq, i, i) : i \in 1..26}

LowerChars == {SubSeq(LowerSeq, i, i) : i \in 1..26}

DigitChars == {SubSeq(DigitSeq, i, i) : i \in 1..10}

AlphaChars == UpperChars \cup LowerChars

AlnumChars == AlphaChars \cup DigitChars

\* \w of the regular expressions
WordChars == AlnumChars \cup {"_"}

\* str.isspace / \s, over the characters a normalized text can hold
Whitespace == {" ", "\t", "\n"}

LowerMap == [c \in UpperChars |->
               SubSeq(LowerSeq, CHOOSE i \in 1..26 : SubSeq(UpperSeq, i, i) = c,
                                CHOOSE i \in 1..26 : SubSeq(UpperSeq, i, i) = c)]

LowerCh(c) == IF c \in UpperChars THEN LowerMap[c] ELSE c

\* the characters a..b of s (1-based, inclusive) in lower case
RECURSIVE LowerFrom(_, _, _)
LowerFrom(s, a, b) ==
    IF a > b THEN ""
    ELSE IF a = b THEN LowerCh(SubSeq(s, a, a))
    ELSE LowerFrom(s, a, (a + b) \div 2) \o LowerFrom(s, (a + b) \div 2 + 1, b)

\* str.lower()
Lower(s) == LowerFrom(s, 1, Len(s))

\* s[p] for 0 <= p < len(s)
At(s, p) == SubSeq(s, p + 1, p + 1)

\* s[a:b] for a, b >= 0, clamped to the string as Python clamps a slice
Slice(s, a, b) == SubSeq(s, Min2(a, Len(s)) + 1, Min2(b, Len(s)))

\* s[a:]
From(s, a) == Slice(s, a, Len(s))

\* the first offset >= p of s whose character is in chars; len(s) if none
FirstIn(s, p, chars) == MinOr({q \in p..Len(s) - 1 : At(s, q) \in chars}, Len(s))

\* the first offset >= p of s whose character is not in chars; len(s) if none
RECURSIVE FirstNotIn(_, _, _)
FirstNotIn(s, p, chars) ==
    IF p >= Len(s) THEN Len(s)
    ELSE IF At(s, p) \notin chars THEN p ELSE FirstNotIn(s, p + 1, chars)

\* the last offset <= p of s whose character is not in chars; -1 if none
RECURSIVE LastNotIn(_, _, _)
LastNotIn(s, p, chars) ==
    IF p < 0 THEN -1
    ELSE IF At(s, p) \notin chars THEN p ELSE LastNotIn(s, p - 1, chars)

\* s.lstrip(chars)
LStripChars(s, chars) == From(s, FirstNotIn(s, 0, chars))

\* s.rstrip(chars)
RStripChars(s, chars) == Slice(s, 0, LastNotIn(s, Len(s) - 1, chars) + 1)

\* s.strip(chars)
StripChars(s, chars) == RStripChars(LStripChars(s, chars), chars)

\* s.strip(), s.lstrip(), s.rstrip()
Strip(s) == StripChars(s, Whitespace)

LStrip(s) == LStripChars(s, Whitespace)

RStrip(s) == RStripChars(s, Whitespace)

\* s.startswith(p), s.endswith(p)
StartsWith(s, p) == Len(p) <= Len(s) /\ Slice(s, 0, Len(p)) = p

EndsWith(s, p) == Len(p) <= Len(s) /\ Slice(s, Len(s) - Len(p), Len(s)) = p

\* s.find(sub, p)
FindFrom(s, sub, p) ==
    MinOr({q \in p..Len(s) - Len(sub) : Slice(s, q, q + Len(sub)) = sub}, -1)

\* s.find(sub)
Find(s, sub) == FindFrom(s, sub, 0)

\* sub in s
Contains(s, sub) == Find(s, sub) >= 0

\* s.split() from offset p on: the maximal runs of non-whitespace characters
RECURSIVE SplitFrom(_, _)
SplitFrom(s, p) ==
    LET Word(a) == IF a >= Len(s) THEN <<>>
                   ELSE <<Slice(s, a, FirstIn(s, a, Whitespace))>>
                        \o SplitFrom(s, FirstIn(s, a, Whitespace))
    IN  Word(FirstNotIn(s, p, Whitespace))

Split(s) == SplitFrom(s, 0)

\* ' '.join(words)
RECURSIVE JoinWords(_)
JoinWords(words) ==
    IF words = <<>> THEN ""
    ELSE IF Len(words) = 1 THEN words[1]
    ELSE words[1] \o " " \o JoinWords(Tail(words))

\* words[:n]
FirstN(words, n) == SubSeq(words, 1, Min2(n, Len(words)))

\* ' '.join(s.split())
NormalizeSpaces(s) == JoinWords(Split(s))

\* ------------------------------------------------------------------------
\* backend/app/citation_analyzer.py: the pure helpers of CitationAnalyzer
\* ------------------------------------------------------------------------

\* CitationAnalyzer.SIGNALS, in list order
CA_SIGNALS == <<"see", "see also", "see generally", "cf.", "compare", "contra",
                "but see", "but cf.", "see, e.g.,", "e.g.,", "accord">>

\* CitationAnalyzer.LEGAL_ABBREVS, lower-cased as the comparison lower-cases them
CA_LEGAL_ABBREVS ==
    {"v.", "vs.", "inc.", "ltd.", "corp.", "co.", "no.", "nos.",
     "app.", "crim.", "civ.", "ct.", "dist.", "supp.", "rev.",
     "stat.", "ann.", "gen.", "ass.", "ch.", "cl.", "div.",
     "ed.", "ex.", "fed.", "gov.", "int.", "jr.", "sr.", "mr.",
     "mrs.", "ms.", "dr.", "prof.", "rep.", "sen.", "st.",
     "tex.", "cal.", "n.y.", "fla.", "u.s.", "s.w.", "n.w.",
     "s.e.", "n.e.", "so.", "p.", "f.", "l.", "r.", "s.", "w."}

\* the double-quote characters of inline_quote_pattern
QuoteChars == {"\""}

\* the explanatory verbs of parenthetical_pattern
CA_PAREN_VERBS ==
    {"holding", "stating", "finding", "noting", "explaining", "observing",
     "concluding", "reasoning", "emphasizing", "recognizing", "determining",
     "clarifying", "reaffirming", "affirming", "reversing"}

\* the key words of annotation_pattern ("marks?" and "citations?" match
\* through their optional letter)
AnnotationWords ==
    {"added", "omitted", "altered", "supplied", "cleaned up", "quotation mark",
     "citation", "internal", "emphasis", "footnote"}

\* look-ahead of _find_parenthetical_after
CA_LOOKAHEAD == 200

\* look-back of the antecedent search in _get_full_citation_span
CA_LOOKBACK == 100

\* signal_pattern matches at offset p of text with the k-th signal:
\* \b(signal)\s*$ under re.IGNORECASE
SignalAt(text, p, k) ==
    /\ p = 0 \/ At(text, p - 1) \notin WordChars
    /\ p + Len(CA_SIGNALS[k]) <= Len(text)
    /\ Lower(Slice(text, p, p + Len(CA_SIGNALS[k]))) = CA_SIGNALS[k]
    /\ FirstNotIn(text, p + Len(CA_SIGNALS[k]), Whitespace) = Len(text)

\* the offset of the leftmost match of signal_pattern at or after p; -1 if none
SignalStart(text, p) ==
    MinOr({q \in p..Len(text) - 1 : \E k \in 1..Len(CA_SIGNALS) : SignalAt(text, q, k)},
          -1)

\* _extract_signal: the lower-cased signal of the leftmost match, or None
CA_extract_signal(text) ==
    LET Matched(p) ==
            IF p < 0 THEN None
            ELSE Some(CA_SIGNALS[MinOf({k \in 1..Len(CA_SIGNALS) : SignalAt(text, p, k)})])
    IN  Matched(SignalStart(text, 0))

\* signal_pattern.sub('', text): the match runs to the end of the text
CA_signal_sub(text) ==
    LET Cut(p) == IF p < 0 THEN text ELSE Slice(text, 0, p)
    IN  Cut(SignalStart(text, 0))

\* annotation_pattern.sub('', text): a leading "(... key word ...)" and the
\* \s*\.?\s* after it are removed
CA_annotation_sub(text) ==
    LET AfterDot(r1) == LStrip(IF StartsWith(r1, ".") THEN From(r1, 1) ELSE r1)
        Cut(close) ==
            IF close >= Len(text) THEN text
            ELSE IF \E w \in AnnotationWords : Contains(Lower(Slice(text, 1, close)), w)
            THEN AfterDot(LStrip(From(text, close + 1)))
            ELSE text
    IN  IF StartsWith(text, "(") THEN Cut(FirstIn(text, 0, {")"})) ELSE text

\* whether the mark at offset i of search_text ends with a legal abbreviation:
\* search_text[i - len(abbrev) + 1 : i + 1].lower() == abbrev.lower() for some
\* abbrev
CA_is_abbrev(search_text, i) ==
    LET Ends(prefix) == \E abbrev \in CA_LEGAL_ABBREVS : EndsWith(prefix, abbrev)
    IN  Ends(Lower(Slice(search_text, Max2(0, i - 7), i + 1)))

\* whether offset i of search_text is a sentence boundary for
\* _find_sentence_start
CA_is_boundary(search_text, i) ==
    LET Upper(q) == q >= Len(search_text) \/ At(search_text, q) \in UpperChars
    IN  /\ At(search_text, i) \in {".", "!", "?"}
        /\ Upper(FirstNotIn(search_text, i + 1, Whitespace))
        /\ ~CA_is_abbrev(search_text, i)

\* the last boundary of search_text at or before offset i; -1 if none
CA_boundary_before(search_text, i) ==
    MaxOr({q \in 0..i : CA_is_boundary(search_text, q)}, -1)

\* _find_sentence_start: the offset after the second boundary counted
\* backwards from end_pos, white space skipped; 0 when there is none
CA_find_sentence_start(text, end_pos) ==
    LET Second(search_text, first) ==
            LET After(second) ==
                    IF second < 0 THEN 0
                    ELSE FirstNotIn(search_text, second + 1, Whitespace)
            IN  IF first < 0 THEN 0
                ELSE After(CA_boundary_before(search_text, first - 1))
        First(search_text) ==
            Second(search_text, CA_boundary_before(search_text, Len(search_text) - 1))
    IN  First(Slice(text, 0, end_pos))

\* the first offset >= p at which inline_quote_pattern matches; len(text) if
\* none: a quote character, at least one other character, a quote character
RECURSIVE QuoteOpen(_, _)
QuoteOpen(text, p) ==
    LET Try(q) ==
            IF q >= Len(text) THEN Len(text)
            ELSE IF /\ FirstIn(text, q + 1, QuoteChars) < Len(text)
                    /\ FirstIn(text, q + 1, QuoteChars) > q + 1
            THEN q
            ELSE QuoteOpen(text, q + 1)
    IN  Try(FirstIn(text, p, QuoteChars))

\* _find_quotations: the matches of inline_quote_pattern from offset p on
RECURSIVE QuotationsFrom(_, _)
QuotationsFrom(text, p) ==
    LET Emit(q, r) ==
            <<[text |-> Slice(text, q + 1, r), start |-> q, end |-> r + 1]>>
            \o QuotationsFrom(text, r + 1)
        Open(q) == IF q >= Len(text) THEN <<>>
                   ELSE Emit(q, FirstIn(text, q + 1, QuoteChars))
    IN  Open(QuoteOpen(text, p))

CA_find_quotations(text) == QuotationsFrom(text, 0)

\* parenthetical_pattern matched at offset p of t:
\* \((?:verbs)\s+that\s+([^)]+)\) under re.IGNORECASE; None, or the offsets
\* of the content's start (after "that") and of the closing parenthesis
ParenMatchAt(t, p) ==
    LET Close(b, close) ==
            IF /\ Lower(Slice(t, b - 4, b)) = "that"
               /\ b < Len(t)
               /\ At(t, b) \in Whitespace
               /\ close < Len(t)
               /\ close >= b + 2
            THEN Some([content_start |-> b, close |-> close]) ELSE None
        That(a, word) ==
            IF word > a THEN Close(word + 4, FirstIn(t, word + 4, {")"})) ELSE None
        Verb(a) == That(a, FirstNotIn(t, a, Whitespace))
        Verbs(vs) ==
            IF vs = {} THEN None ELSE Verb(p + 1 + Len(CHOOSE v \in vs : TRUE))
    IN  IF At(t, p) # "(" THEN None
        ELSE Verbs({v \in CA_PAREN_VERBS : Lower(Slice(t, p + 1, p + 1 + Len(v))) = v})

\* the offset of the leftmost match of parenthetical_pattern at or after p;
\* -1 if none
ParenStart(t, p) ==
    MinOr({q \in p..Len(t) - 1 : IsSome(ParenMatchAt(t, q))}, -1)

\* _find_parenthetical_after: the leftmost match of parenthetical_pattern in
\* the lookahead characters after position
CA_find_parenthetical_after(text, position, lookahead) ==
    LET Build(following_text, p, m, parenthetical_content) ==
            [full_text      |-> Slice(following_text, p, m.close + 1),
             content        |-> parenthetical_content,
             has_quotations |-> Len(CA_find_quotations(parenthetical_content)) > 0,
             quotations     |-> CA_find_quotations(parenthetical_content),
             start          |-> position + p,
             end            |-> position + m.close + 1]
        Matched(following_text, p, m) ==
            Build(following_text, p, m,
                  Strip(Slice(following_text, m.content_start, m.close)))
        Search(following_text, p) ==
            IF p < 0 THEN None
            ELSE Some(Matched(following_text, p, Val(ParenMatchAt(following_text, p))))
        Following(following_text) == Search(following_text, ParenStart(following_text, 0))
    IN  Following(Slice(text, position, Min2(Len(text), position + lookahead)))

\* the antecedent search of _get_full_citation_span: the leftmost offset >= p
\* of preceding at which \b(antecedent)\s*,\s*$ matches; -1 if none
AntecedentStart(preceding, antecedent, p) ==
    LET Comma(c) ==
            /\ c < Len(preceding)
            /\ At(preceding, c) = ","
            /\ FirstNotIn(preceding, c + 1, Whitespace) = Len(preceding)
        MatchAt(q) ==
            /\ q = 0 \/ At(preceding, q - 1) \notin WordChars
            /\ Lower(Slice(preceding, q, q + Len(antecedent))) = Lower(antecedent)
            /\ Comma(FirstNotIn(preceding, q + Len(antecedent), Whitespace))
    IN  MinOr({q \in p..Len(preceding) - Len(antecedent) : MatchAt(q)}, -1)

\* _get_full_citation_span: <<start, end>> of a recognizer token
CA_get_full_citation_span(cite, text) ==
    LET span_start == cite.span[1]
        span_end   == cite.span[2]
        end == IF IsSome(cite.full_span_end) THEN Val(cite.full_span_end)
               ELSE span_end
        lookback == Min2(span_start, CA_LOOKBACK)
        Extend(m) == IF m >= 0 THEN <<span_start - lookback + m, span_end>>
                     ELSE <<span_start, span_end>>
    IN  IF cite.kind = "FullCaseCitation"
        THEN IF IsSome(cite.full_span_start)
             THEN <<Val(cite.full_span_start), end>>
             ELSE <<span_start, span_end>>
        ELSE IF cite.kind = "ShortCaseCitation"
        THEN IF IsSome(cite.full_span_start)
             THEN <<Val(cite.full_span_start), end>>
             ELSE IF IsSome(cite.antecedent_guess) /\ Val(cite.antecedent_guess) # ""
             THEN Extend(AntecedentStart(Slice(text, span_start - lookback, span_start),
                                         Val(cite.antecedent_guess), 0))
             ELSE <<span_start, span_end>>
        ELSE <<span_start, span_end>>

\* ------------------------------------------------------------------------
\* Inputs of the backend pipeline: the normalized text of the Argument
\* section, the tokens the citation recognizer finds in it, and the block
\* quotes the layout extractor found
\* ------------------------------------------------------------------------

\* the longest citation sequence of a generated document
MaxCites == 3

\* A document is a sequence of segments: the text before a citation (gap),
\* the citation (case name, base span, court-and-year part) and the text
\* that follows it (tail).  full_start / full_end say whether the recognizer
\* reports full_span_start / full_span_end for the token.
SegmentPool ==
    << [gap |-> "The rule is clear. ", name |-> "Doe v. Roe, ", base |-> "1 U.S. 2",
        post |-> " (2000)", kind |-> "FullCaseCitation", full_start |-> TRUE,
        full_end |-> TRUE, antecedent |-> None, tail |-> ""],
       [gap |-> "; ", name |-> "Poe v. Moe, ", base |-> "3 U.S. 4",
        post |-> " (2001)", kind |-> "FullCaseCitation", full_start |-> TRUE,
        full_end |-> TRUE, antecedent |-> None, tail |-> ""],
       [gap |-> "; and ", name |-> "", base |-> "Id. at 5",
        post |-> "", kind |-> "IdCitation", full_start |-> FALSE,
        full_end |-> FALSE, antecedent |-> None, tail |-> "."],
       [gap |-> " See ", name |-> "Lee v. Ray, ", base |-> "6 U.S. 7",
        post |-> " (2002)", kind |-> "FullCaseCitation", full_start |-> TRUE,
        full_end |-> TRUE, antecedent |-> None,
        tail |-> " (holding that the statute applies)."],
       [gap |-> ". But see ", name |-> "", base |-> "Id. at 9",
        post |-> "", kind |-> "IdCitation", full_start |-> FALSE,
        full_end |-> FALSE, antecedent |-> None, tail |-> "."],
       [gap |-> " (emphasis added); ", name |-> "Doe, ", base |-> "1 U.S. at 7",
        post |-> "", kind |-> "ShortCaseCitation", full_start |-> FALSE,
        full_end |-> FALSE, antecedent |-> Some("Doe"), tail |-> ""],
       [gap |-> ". The court said: a b c d e f g h i \"j\" k. ", name |-> "Kay v. Orr, ",
        base |-> "8 U.S. 9", post |-> " (2003)", kind |-> "FullCaseCitation",
        full_start |-> TRUE, full_end |-> TRUE, antecedent |-> None, tail |-> ""],
       [gap |-> ". It fails here. See also ", name |-> "Ann v. Bob, ", base |-> "4 U.S. 8",
        post |-> "", kind |-> "FullCaseCitation", full_start |-> TRUE,
        full_end |-> FALSE, antecedent |-> None, tail |-> " (1999)."],
       [gap |-> " See ", name |-> "Max v. Ned, ", base |-> "2 U.S. 3",
        post |-> " (2004)", kind |-> "FullCaseCitation", full_start |-> TRUE,
        full_end |-> TRUE, antecedent |-> None,
        tail |-> " (holding that the rule (as amended) applies)."],
       [gap |-> " See ", name |-> "Una v. Val, ", base |-> "5 U.S. 6",
        post |-> " (2005)", kind |-> "FullCaseCitation", full_start |-> TRUE,
        full_end |-> TRUE, antecedent |-> None,
        tail |-> " (holding that the rule applies. It was decided (again)."],
       [gap |-> ". It ended. a b c d e f g h i \"j\" k. ", name |-> "Jay v. Orr, ",
        base |-> "7 U.S. 8", post |-> " (2006)", kind |-> "FullCaseCitation",
        full_start |-> TRUE, full_end |-> TRUE, antecedent |-> None, tail |-> ""] >>

\* the block-quote lists the layout extractor may hand over
BlockQuoteLists ==
    { <<>>,
      << [text |-> "a b c d e f g h i \"j\" k.", start_page |-> 3, end_page |-> 3] >>,
      << [text |-> "It fails here.", start_page |-> 2, end_page |-> 2],
         [text |-> "a b c d e f g h i \"j\" k.", start_page |-> 3, end_page |-> 4] >> }

\* the segments whose tail holds nested or unbalanced parentheses, and the one
\* whose block quote follows a full sentence; a document has one of them as
\* its last segment only
ClosingSegs == {9, 10, 11}

SegSeqs ==
    LET Plain(n) == [1..n -> (1..Len(SegmentPool)) \ ClosingSegs]
    IN  UNION {Plain(n) : n \in 0..MaxCites}
           \cup UNION {{Append(s, k) : s \in Plain(n), k \in ClosingSegs} :
                          n \in 0..MaxCites - 1}

SegText(s) == s.gap \o s.name \o s.base \o s.post \o s.tail

RECURSIVE DocText(_)
DocText(segs) ==
    IF segs = <<>> THEN ""
    ELSE SegText(SegmentPool[Head(segs)]) \o DocText(Tail(segs))

\* the recognizer's token for a segment that starts at offset off
Token(s, off) ==
    LET a == off + Len(s.gap)
        b == a + Len(s.name)
        c == b + Len(s.base)
    IN  [kind             |-> s.kind,
         span             |-> <<b, c>>,
         full_span_start  |-> IF s.full_start THEN Some(a) ELSE None,
         full_span_end    |-> IF s.full_end THEN Some(c + Len(s.post)) ELSE None,
         antecedent_guess |-> s.antecedent]

RECURSIVE DocTokens(_, _)
DocTokens(segs, off) ==
    IF segs = <<>> THEN <<>>
    ELSE <<Token(SegmentPool[Head(segs)], off)>>
         \o DocTokens(Tail(segs), off + Len(SegText(SegmentPool[Head(segs)])))

\* ------------------------------------------------------------------------
\* State
\* ------------------------------------------------------------------------

VARIABLES
    \* BriefProcessor.process_brief / CitationAnalyzer.extract_citations_with_context
    phase,               \* "extract" while the citation loop runs, then "done"
    text,                \* normalized_text
    found_citations,     \* get_citations(text)
    block_quotes,        \* argument_section['block_quotes']
    idx,                 \* number of citations the loop has processed
    last_end,
    last_full_citation,
    last_proposition,
    string_cite_group,
    results,             \* the items
    metadata,            \* result['metadata'] of process_brief, None before it returns
    upload_response      \* what upload_brief answered, None before it does

VARIABLES
    \* BriefParser.segment_sentences
    seg_phase,           \* "scan" while the character loop runs, then "done"
    seg_text,            \* text
    seg_i,               \* i
    seg_current,         \* ''.join(current)
    sentences

VARIABLES
    \* parse_brief: the process, its CourtListener client and the service
    api_token,           \* whether the client holds a token
    cl_client_made,      \* _cl_client is not None
    cl_cache,            \* _cl_client._cache
    service,             \* "up" or "down": whether a request reaches the service
    docs_done,           \* documents this process has finished
    pb_phase,            \* "idle", "prefetch", "parse", "propagate"
    doc,                 \* the document's units and their recognized citations
    u_idx,               \* units parse_argument_section has finished
    c_idx,               \* citations handled in the current unit
    last_full_cite,      \* parse_argument_section's last_full_cite
    new_last_full,       \* extract_citations_from_sentence's new_last_full
    unit_citations,      \* extract_citations_from_sentence's citations
    parsed,              \* per stored sentence or block quote, its citation dicts
    parsed_units,        \* per stored sentence or block quote: type, text, intro
    full_cites_by_key,   \* propagate_cl_records
    last_cite,
    last_pin_cite

VARIABLES
    \* one run over a document: parse_brief.main or BriefProcessor.process_brief
    run_kind,            \* "cli" (parse_brief.main) or "backend" (process_brief)
    run_pc,              \* the statement the run is at
    run_doc,             \* the document's pages
    run_parsed,          \* main's parsed dict, by key (None: key absent)
    run_stdout,          \* what main has printed
    run_file,            \* the *_parsed.json file, None until written
    run_raised,          \* the exception the run ended with, or None
    run_result           \* what process_brief returned, or None

caVars == <<phase, text, found_citations, block_quotes, idx, last_end,
            last_full_citation, last_proposition, string_cite_group, results,
            metadata, upload_response>>

segVars == <<seg_phase, seg_text, seg_i, seg_current, sentences>>

clVars == <<api_token, cl_client_made, cl_cache, service>>

pbVars == <<docs_done, pb_phase, doc, u_idx, c_idx, last_full_cite, new_last_full,
            unit_citations, parsed, parsed_units,
            full_cites_by_key, last_cite, last_pin_cite>>

VARIABLES
    \* layout grouping of a section's blocks: BriefParser.extract_paragraphs
    \* or PDFExtractor.extract_section_with_blockquotes
    lay_kind,            \* "cli" (extract_paragraphs) or "backend"
    lay_pc,              \* "idle", "group", "done" or "failed"
    lay_page_blocks,     \* the text blocks of the section's pages, in reading order
    lay_body_margin,     \* self._body_margin
    lay_indent,          \* self._block_indent / self._para_indent
    lay_all_blocks,      \* all_blocks, as positions in lay_page_blocks
    lay_i,               \* the loop index i
    lay_current,         \* current_quote_blocks (backend)
    lay_paragraphs,      \* paragraphs (cli) / block_quotes (backend)
    lay_raised           \* the exception the call ended with, or None

runVars == <<run_kind, run_pc, run_doc, run_parsed, run_stdout, run_file, run_raised,
             run_result>>

VARIABLES
    \* one call of signal detection: _find_signal_before or _extract_signal
    sig_kind,            \* "parse_brief", "extractor" or "analyzer"
    sig_pc,              \* "idle", "call" or "done"
    sig_text,            \* text
    sig_pos,             \* pos
    sig_signal           \* the returned signal, or None

VARIABLES
    \* parse_brief.extract_propositions
    xp_pc,               \* "idle", "loop" or "done"
    xp_units,            \* the block quotes and sentences of parsed, in order
    xp_i,                \* units the loops have handled
    prev_sentence_text,
    propositions

sigVars == <<sig_kind, sig_pc, sig_text, sig_pos, sig_signal>>

xpVars == <<xp_pc, xp_units, xp_i, prev_sentence_text, propositions>>

layVars == <<lay_kind, lay_pc, lay_page_blocks, lay_body_margin, lay_indent,
             lay_all_blocks, lay_i, lay_current, lay_paragraphs, lay_raised>>

vars == <<caVars, segVars, clVars, pbVars, runVars, layVars, sigVars, xpVars>>

\* the state of a subsystem that is not running
IdleAnalyzer ==
    /\ phase = "done" /\ text = "" /\ found_citations = <<>> /\ block_quotes = <<>>
    /\ idx = 0 /\ last_end = 0 /\ last_full_citation = None /\ last_proposition = None
    /\ string_cite_group = 0 /\ results = <<>>
    /\ metadata = None /\ upload_response = None

IdleSegment ==
    /\ seg_phase = "done" /\ seg_text = "" /\ seg_i = 0 /\ seg_current = ""
    /\ sentences = <<>>

IdleParse ==
    /\ api_token = FALSE /\ cl_client_made = FALSE /\ cl_cache = {}
    /\ service = "up" /\ docs_done = 0 /\ pb_phase = "idle" /\ doc = <<>>
    /\ u_idx = 0 /\ c_idx = 0 /\ last_full_cite = None /\ new_last_full = None
    /\ unit_citations = <<>> /\ parsed = <<>> /\ parsed_units = <<>>
    /\ full_cites_by_key = {}
    /\ last_cite = None /\ last_pin_cite = None

\* main's parsed dict before parse_argument_section has returned
NoParsed == [error |-> None, argument |-> None, summary |-> None, propositions |-> None]

IdleRun ==
    /\ run_kind = "cli" /\ run_pc = "idle" /\ run_doc = <<>> /\ run_parsed = NoParsed
    /\ run_stdout = <<>> /\ run_file = None /\ run_raised = None /\ run_result = None

IdleLayout ==
    /\ lay_kind = "cli" /\ lay_pc = "idle" /\ lay_page_blocks = <<>>
    /\ lay_body_margin = None /\ lay_indent = None /\ lay_all_blocks = <<>>
    /\ lay_i = 0 /\ lay_current = <<>> /\ lay_paragraphs = <<>> /\ lay_raised = None

IdleSignal ==
    /\ sig_kind = "parse_brief" /\ sig_pc = "idle" /\ sig_text = "" /\ sig_pos = 0
    /\ sig_signal = None

IdlePropositions ==
    /\ xp_pc = "idle" /\ xp_units = <<>> /\ xp_i = 0 /\ prev_sentence_text = None
    /\ propositions = <<>>

\* ------------------------------------------------------------------------
\* CitationAnalyzer.extract_citations_with_context: one loop iteration
\* ------------------------------------------------------------------------

\* lines 144-163: the text before the citation, from the later of the last
\* citation's end and the sentence start, leading punctuation and a leading
\* annotation parenthetical stripped
CA_preceding_text(txt, lastEnd, start_pos) ==
    LET actual_start == Max2(lastEnd, CA_find_sentence_start(txt, start_pos))
        stripped     == Strip(Slice(txt, actual_start, start_pos))
        unpunctuated == LStripChars(stripped,
                                    {".", ",", ";", ":", "!", "?", " ", "\t", "\n"})
    IN  CA_annotation_sub(unpunctuated)

\* lines 174-175: the string-cite test on the text left after the signal
CA_is_string_cite(preceding_text) ==
    LET Bare(stripped_preceding) ==
            stripped_preceding = "" \/ stripped_preceding \in {"and", "or", "but"}
    IN  Bare(StripChars(preceding_text, {";", ",", ".", " ", "\t", "\n"}))

\* a variant that flags every signalled citation
CA_needs_review_signal_only(signal, parenthetical) == IsSome(signal)

\* line 205
CA_needs_review(signal, parenthetical) == IsSome(signal) /\ ~IsSome(parenthetical)

\* lines 189-199
CA_cite_type(cite) ==
    CASE cite.kind = "FullCaseCitation"  -> "full_case"
      [] cite.kind = "ShortCaseCitation" -> "short_case"
      [] cite.kind = "IdCitation"        -> "id"
      [] cite.kind = "SupraCitation"     -> "supra"
      [] OTHER                           -> "unknown"

\* `if last_proposition:` : None and '' are both false
Truthy(optStr) == IsSome(optStr) /\ Val(optStr) # ""

\* lines 177-183: the group counter after this citation
CA_next_group(is_string_cite, group) == IF is_string_cite THEN group ELSE group + 1

\* a variant in which a string cite keeps its own preceding text
CA_proposition_text_own(is_string_cite, preceding_text, lastProp) == preceding_text

\* lines 177-183: the proposition text the citation receives
CA_proposition_text(is_string_cite, preceding_text, lastProp) ==
    IF is_string_cite /\ Truthy(lastProp) THEN Val(lastProp) ELSE preceding_text

\* lines 139-235: the values one iteration computes
CA_iteration(cite, txt, lastEnd, lastFull, lastProp, group) ==
    LET Item(start_pos, end_pos, citation_text, signal, after_signal, is_string_cite,
             preceding_text, parenthetical, cite_type, newLastFull, quotations) ==
            [result |->
               [preceding_text |-> preceding_text,
                citation |-> [text          |-> citation_text,
                              type          |-> cite_type,
                              start         |-> start_pos,
                              end           |-> end_pos,
                              signal        |-> signal,
                              parenthetical |-> parenthetical,
                              needs_review  |-> CA_needs_review(signal, parenthetical),
                              refers_to     |-> IF cite_type = "id" /\ Truthy(newLastFull)
                                                THEN newLastFull ELSE None],
                has_quotation     |-> Len(quotations) > 0,
                quotations        |-> quotations,
                content_type      |-> IF Len(quotations) > 0 THEN "quotation"
                                      ELSE "statement",
                is_string_cite    |-> is_string_cite,
                string_cite_group |-> CA_next_group(is_string_cite, group),
                block_quote       |-> None],
             last_end           |-> IF IsSome(parenthetical) THEN Val(parenthetical).end
                                    ELSE end_pos,
             last_full_citation |-> newLastFull,
             last_proposition   |-> IF is_string_cite THEN lastProp ELSE Some(after_signal),
             string_cite_group  |-> CA_next_group(is_string_cite, group)]
        Proposition(start_pos, end_pos, citation_text, signal, after_signal,
                    is_string_cite, preceding_text, cite_type) ==
            Item(start_pos, end_pos, citation_text, signal, after_signal, is_string_cite,
                 preceding_text,
                 CA_find_parenthetical_after(txt, end_pos, CA_LOOKAHEAD),
                 cite_type,
                 IF cite_type = "full_case" THEN Some(citation_text) ELSE lastFull,
                 CA_find_quotations(preceding_text))
        Classified(start_pos, end_pos, signal, after_signal, is_string_cite) ==
            Proposition(start_pos, end_pos, Slice(txt, start_pos, end_pos), signal,
                        after_signal, is_string_cite,
                        CA_proposition_text(is_string_cite, after_signal, lastProp),
                        CA_cite_type(cite))
        Signalled(start_pos, end_pos, signal, after_signal) ==
            Classified(start_pos, end_pos, signal, after_signal,
                       CA_is_string_cite(after_signal))
        Preceded(start_pos, end_pos, before_signal, signal) ==
            Signalled(start_pos, end_pos, signal,
                      IF IsSome(signal) THEN Strip(CA_signal_sub(before_signal))
                      ELSE before_signal)
        Spanned(start_pos, end_pos, before_signal) ==
            Preceded(start_pos, end_pos, before_signal, CA_extract_signal(before_signal))
        Span(span) ==
            Spanned(span[1], span[2], CA_preceding_text(txt, lastEnd, span[1]))
    IN  Span(CA_get_full_citation_span(cite, txt))

\* a variant of the loop body that emits no item for an Id. citation
AnalyzeCitation_skip_id ==
    /\ phase = "extract"
    /\ idx < Len(found_citations)
    /\ \E it \in {CA_iteration(found_citations[idx + 1], text, last_end,
                               last_full_citation, last_proposition, string_cite_group)} :
          /\ results' = IF it.result.citation.type = "id" THEN results
                        ELSE Append(results, it.result)
          /\ last_end' = it.last_end
          /\ last_full_citation' = it.last_full_citation
          /\ last_proposition' = it.last_proposition
          /\ string_cite_group' = it.string_cite_group
    /\ idx' = idx + 1
    /\ UNCHANGED <<phase, text, found_citations, block_quotes, metadata, upload_response>>
    /\ UNCHANGED <<segVars, clVars, pbVars, runVars, layVars, sigVars, xpVars>>

AnalyzeCitation ==
    /\ phase = "extract"
    /\ idx < Len(found_citations)
    /\ \E it \in {CA_iteration(found_citations[idx + 1], text, last_end,
                               last_full_citation, last_proposition, string_cite_group)} :
          /\ results' = Append(results, it.result)
          /\ last_end' = it.last_end
          /\ last_full_citation' = it.last_full_citation
          /\ last_proposition' = it.last_proposition
          /\ string_cite_group' = it.string_cite_group
    /\ idx' = idx + 1
    /\ UNCHANGED <<phase, text, found_citations, block_quotes, metadata, upload_response>>
    /\ UNCHANGED <<segVars, clVars, pbVars, runVars, layVars, sigVars, xpVars>>

\* ------------------------------------------------------------------------
\* BriefProcessor._link_block_quotes_to_citations
\* ------------------------------------------------------------------------

\* intro_endings; U+2014 and U+2026 are written "~" and "^" here
intro_endings == {":", "~", ",", ";", "^", "..."}

\* bq_identifier: the first 10 words of the block quote
BP_bq_identifier(bq) == JoinWords(FirstN(Split(bq.text), 10))

\* a variant that takes the text before the block quote whatever it ends with
BP_intro_text_any(preceding_normalized, bq_identifier) ==
    Strip(Slice(preceding_normalized, 0,
                Max2(Find(preceding_normalized, bq_identifier), 0)))

\* lines 93-100
BP_intro_text(preceding_normalized, bq_identifier) ==
    LET Intro(bq_start_idx, potential_intro) ==
            IF /\ bq_start_idx > 0
               /\ potential_intro # ""
               /\ \E e \in intro_endings : EndsWith(RStrip(potential_intro), e)
            THEN potential_intro ELSE ""
        Start(bq_start_idx) ==
            Intro(bq_start_idx, Strip(Slice(preceding_normalized, 0, Max2(bq_start_idx, 0))))
    IN  Start(Find(preceding_normalized, bq_identifier))

\* lines 86-90: the index of the first block quote whose identifier occurs in
\* the item's normalized preceding text, from the k-th on; 0 if none
RECURSIVE BP_first_match(_, _, _)
BP_first_match(preceding_normalized, bqs, k) ==
    IF k > Len(bqs) THEN 0
    ELSE IF Contains(preceding_normalized, BP_bq_identifier(bqs[k])) THEN k
    ELSE BP_first_match(preceding_normalized, bqs, k + 1)

\* a variant that links the block quote and leaves the inline quotations
BP_link_item_keep_quotes(item, bqs) ==
    LET Match(preceding_normalized, k) ==
            IF k = 0 THEN item
            ELSE [item EXCEPT
                    !.block_quote  = Some([text       |-> bqs[k].text,
                                           intro_text |-> "",
                                           start_page |-> bqs[k].start_page,
                                           end_page   |-> bqs[k].end_page]),
                    !.content_type = "block_quotation"]
        Normalized(preceding_normalized) ==
            Match(preceding_normalized, BP_first_match(preceding_normalized, bqs, 1))
    IN  Normalized(NormalizeSpaces(item.preceding_text))

\* lines 83-113: the body of the loop over the items, for one item
BP_link_item(item, bqs) ==
    LET Linked(preceding_normalized, bq) ==
            [item EXCEPT
               !.block_quote   = Some([text       |-> bq.text,
                                       intro_text |-> BP_intro_text(preceding_normalized,
                                                                    BP_bq_identifier(bq)),
                                       start_page |-> bq.start_page,
                                       end_page   |-> bq.end_page]),
               !.quotations    = <<>>,
               !.has_quotation = FALSE,
               !.content_type  = "block_quotation"]
        Match(preceding_normalized, k) ==
            IF k = 0 THEN item ELSE Linked(preceding_normalized, bqs[k])
        Normalized(preceding_normalized) ==
            Match(preceding_normalized, BP_first_match(preceding_normalized, bqs, 1))
    IN  Normalized(NormalizeSpaces(item.preceding_text))

\* lines 41-57: the metadata process_brief returns for the linked items; the
\* section's pages and margins come from the layout extractor
BP_metadata(items) ==
    LET Count(kind) == Cardinality({i \in 1..Len(items) : items[i].content_type = kind})
    IN  [start_page              |-> None,
         end_page                |-> None,
         total_citations         |-> Len(items),
         total_statements        |-> Count("statement"),
         total_inline_quotations |-> Count("quotation"),
         total_block_quotations  |-> Count("block_quotation"),
         body_margin             |-> None,
         para_indent             |-> None]

\* process_brief, after the citation loop: the items are linked in place and
\* the result is built
LinkBlockQuotes ==
    /\ phase = "extract"
    /\ idx = Len(found_citations)
    /\ results' = [k \in 1..Len(results) |-> BP_link_item(results[k], block_quotes)]
    /\ metadata' = Some(BP_metadata(results'))
    /\ phase' = "done"
    /\ UNCHANGED <<text, found_citations, block_quotes, idx, last_end,
                   last_full_citation, last_proposition, string_cite_group,
                   upload_response>>
    /\ UNCHANGED <<segVars, clVars, pbVars, runVars, layVars, sigVars, xpVars>>

\* the keys of processed_data['metadata'] that upload_brief reads, in the
\* order it reads them
UploadKeys ==
    <<"start_page", "end_page", "total_statements", "total_quotations",
      "total_citations">>

\* main.py, upload_brief after process_brief returned: the brief record is
\* filled from the metadata; any exception deletes the record and is answered
\* with status 500
UploadBrief ==
    /\ phase = "done"
    /\ IsSome(metadata)
    /\ upload_response = None
    /\ \E missing \in {{k \in 1..Len(UploadKeys) :
                           UploadKeys[k] \notin DOMAIN Val(metadata)}} :
          IF missing = {}
          THEN /\ upload_response' =
                     Some([status_code |-> 200,
                           detail |-> "Brief processed successfully"])
               /\ phase' = "stored"
          ELSE /\ upload_response' =
                     Some([status_code |-> 500,
                           detail |-> "Error processing brief: '"
                                         \o UploadKeys[MinOf(missing)] \o "'"])
               /\ phase' = "failed"
    /\ UNCHANGED <<text, found_citations, block_quotes, idx, last_end,
                   last_full_citation, last_proposition, string_cite_group, results,
                   metadata>>
    /\ UNCHANGED <<segVars, clVars, pbVars, runVars, layVars, sigVars, xpVars>>

\* ------------------------------------------------------------------------
\* The backend pipeline
\* ------------------------------------------------------------------------

InitAnalyzer ==
    /\ \E segs \in SegSeqs :
          /\ text = DocText(segs)
          /\ found_citations = DocTokens(segs, 0)
    /\ block_quotes \in BlockQuoteLists
    /\ phase = "extract"
    /\ idx = 0
    /\ last_end = 0
    /\ last_full_citation = None
    /\ last_proposition = None
    /\ string_cite_group = 0
    /\ results = <<>>
    /\ metadata = None
    /\ upload_response = None
    /\ IdleSegment
    /\ IdleParse
    /\ IdleRun
    /\ IdleLayout
    /\ IdleSignal
    /\ IdlePropositions

NextAnalyzer == AnalyzeCitation \/ LinkBlockQuotes \/ UploadBrief

SpecAnalyzer == InitAnalyzer /\ [][NextAnalyzer]_vars

\* ------------------------------------------------------------------------
\* Properties of the backend pipeline
\* ------------------------------------------------------------------------

StringCiteExample == DocText(<<1, 2, 3>>)

BareConnector(s) == s = "" \/ s \in {"and", "or", "but"}

\* C1: a citation whose preceding text, after the leading punctuation, a
\* leading annotation parenthetical and a trailing signal are stripped, is
\* empty or one of and/or/but is a string cite: it receives the last
\* proposition's text verbatim and the group counter stays; any other
\* citation stores its text as the last proposition and the counter grows by
\* exactly 1.  The three citations preceded by "The rule is clear.", ";" and
\* "; and" all get "The rule is clear." and one string_cite_group.
C1_StringCiteClassification ==
    [][idx' = idx + 1 =>
         \A before \in {CA_preceding_text(text, last_end,
                           CA_get_full_citation_span(found_citations[idx + 1], text)[1])} :
         \A after \in {IF IsSome(CA_extract_signal(before))
                       THEN Strip(CA_signal_sub(before)) ELSE before} :
         \A item \in {results'[idx + 1]} :
             /\ IF BareConnector(StripChars(after, {";", ",", ".", " ", "\t", "\n"}))
                THEN /\ item.is_string_cite
                     /\ Truthy(last_proposition)
                           => item.preceding_text = Val(last_proposition)
                     /\ last_proposition' = last_proposition
                     /\ string_cite_group' = string_cite_group
                ELSE /\ ~item.is_string_cite
                     /\ item.preceding_text = after
                     /\ last_proposition' = Some(after)
                     /\ string_cite_group' = string_cite_group + 1
             /\ item.string_cite_group = string_cite_group'
             /\ (text = StringCiteExample /\ idx = 2)
                   => \A k \in 1..3 :
                         /\ results'[k].preceding_text = "The rule is clear."
                         /\ results'[k].string_cite_group = results'[1].string_cite_group
    ]_vars

C1_Witness ==
    /\ text = StringCiteExample
    /\ Len(results) = 3
    /\ ~results[1].is_string_cite
    /\ results[2].is_string_cite /\ results[3].is_string_cite
    /\ results[3].preceding_text = "The rule is clear."
    /\ results[3].string_cite_group = 1

\* C2: any two items with the same string_cite_group carry the same
\* preceding_text, group 0 included, and string_cite_group never decreases
\* along the items.
C2_GroupSharesText ==
    /\ \A i, j \in 1..Len(results) :
          results[i].string_cite_group = results[j].string_cite_group
             => results[i].preceding_text = results[j].preceding_text
    /\ \A i \in 1..Len(results) - 1 :
          results[i].string_cite_group <= results[i + 1].string_cite_group

\* C3: needs_review is true exactly when the citation has a signal and no
\* parenthetical.
C3_NeedsReview ==
    \A i \in 1..Len(results) :
       results[i].citation.needs_review
          <=> (results[i].citation.signal # None /\ results[i].citation.parenthetical = None)

C3_Witness ==
    /\ \E i \in 1..Len(results) :
          /\ results[i].citation.signal # None
          /\ results[i].citation.parenthetical = None
          /\ results[i].citation.needs_review
    /\ \E i \in 1..Len(results) :
          /\ results[i].citation.signal # None
          /\ results[i].citation.parenthetical # None
          /\ ~results[i].citation.needs_review

\* the items linked to a block quote
LinkedTo(bq) ==
    {i \in 1..Len(results) :
        /\ results[i].block_quote # None
        /\ Val(results[i].block_quote).text = bq.text
        /\ Val(results[i].block_quote).start_page = bq.start_page}

\* C6: after the linking pass each block quote is linked to at most one item
\* and each item to at most one block quote.
C6_OneToOneLinks ==
    phase = "done"
       => /\ \A k \in 1..Len(block_quotes) : Cardinality(LinkedTo(block_quotes[k])) <= 1
          /\ \A i \in 1..Len(results) : Len(results[i].block_quote) <= 1

\* C7: after the linking pass an item carries a block_quote link exactly
\* when its content_type is block_quotation, and a linked item has no
\* quotations and has_quotation false.
C7_BlockQuotationKind ==
    phase = "done"
       => \A i \in 1..Len(results) :
             /\ results[i].block_quote # None <=> results[i].content_type = "block_quotation"
             /\ results[i].block_quote # None
                   => results[i].quotations = <<>> /\ ~results[i].has_quotation

C7_Witness ==
    /\ phase = "done"
    /\ \E i \in 1..Len(results) :
          /\ results[i].block_quote # None
          /\ CA_find_quotations(results[i].preceding_text) # <<>>
          /\ results[i].quotations = <<>>
    /\ \E i \in 1..Len(results) : results[i].block_quote = None

\* the part of an item's whitespace-normalized preceding text that lies
\* before the first ten words of its block quote, trimmed
IntroPart(item) ==
    Strip(Slice(NormalizeSpaces(item.preceding_text), 0,
                Max2(Find(NormalizeSpaces(item.preceding_text),
                          JoinWords(FirstN(Split(Val(item.block_quote).text), 10))),
                     0)))

\* C24: the intro text of a linked block quote is the part of the
\* whitespace-normalized preceding text before the match of the block quote's
\* first ten words when that part, trimmed, ends in one of the intro endings,
\* and is empty otherwise; a part that ends in a single period yields an
\* empty intro text.
C24_IntroText ==
    phase = "done" =>
       \A i \in 1..Len(results) :
          results[i].block_quote # None =>
             Val(results[i].block_quote).intro_text =
                IF \E e \in {":", "~", ",", ";", "^", "..."} :
                      EndsWith(IntroPart(results[i]), e)
                THEN IntroPart(results[i]) ELSE ""

C24_Witness ==
    /\ phase = "done"
    /\ \E i \in 1..Len(results) :
          /\ results[i].block_quote # None
          /\ Val(results[i].block_quote).intro_text = "The court said:"
    /\ \E i \in 1..Len(results) :
          /\ results[i].block_quote # None
          /\ IntroPart(results[i]) = "It ended."
          /\ Val(results[i].block_quote).intro_text = ""

\* C26: the summary of process_brief reports total_citations,
\* total_statements, total_quotations and total_block_quotations under those
\* names, as upload_brief reads them; total_citations is the number of items
\* and the sum of the three other counts.
C26_SummaryCounts ==
    IsSome(metadata) =>
       /\ {"total_citations", "total_statements", "total_quotations",
           "total_block_quotations"} \subseteq DOMAIN Val(metadata)
       /\ Val(metadata).total_citations = Len(results)
       /\ Val(metadata).total_citations =
             Val(metadata).total_statements + Val(metadata).total_quotations
                + Val(metadata).total_block_quotations
       /\ phase # "failed"

\* the counts add up under the names process_brief gives them
C26_CountsAddUp ==
    IsSome(metadata) =>
       /\ Val(metadata).total_citations = Len(results)
       /\ Val(metadata).total_citations =
             Val(metadata).total_statements + Val(metadata).total_inline_quotations
                + Val(metadata).total_block_quotations

\* the text of the last full-case item among the first k items
LastFullAmong(k) ==
    LET S == {j \in 1..k : results[j].citation.type = "full_case"}
    IN  IF S = {} THEN None ELSE Some(results[MaxOf(S)].citation.text)

\* the proposition left by the last item among the first k that is not a
\* string cite
LastPropositionAmong(k) ==
    LET S == {j \in 1..k : ~results[j].is_string_cite}
    IN  IF S = {} THEN None ELSE Some(results[MaxOf(S)].preceding_text)

C19_ParentheticalRightAfter ==
    \A i \in 1..Len(results) :
       \A c \in {results[i].citation} :
          IsSome(c.parenthetical)
             => Val(c.parenthetical).start = FirstNotIn(text, c.end, Whitespace)

\* ------------------------------------------------------------------------
\* parse_brief.py: BriefParser.segment_sentences
\* ------------------------------------------------------------------------

\* LEGAL_ABBREVS of parse_brief.py
PB_LEGAL_ABBREVS ==
    {"v.", "vs.", "inc.", "ltd.", "corp.", "co.", "no.", "nos.",
     "app.", "crim.", "civ.", "ct.", "dist.", "supp.", "rev.",
     "stat.", "ann.", "gen.", "ass.", "ch.", "cl.", "div.",
     "ed.", "ex.", "fed.", "gov.", "jr.", "sr.", "mr.", "mrs.",
     "ms.", "dr.", "prof.", "rep.", "sen.", "st.", "tex.", "cal.",
     "n.y.", "fla.", "u.s.", "s.w.", "n.w.", "s.e.", "n.e.",
     "so.", "f.", "l.", "r.", "s.", "w.", "p.", "proc.", "evid.",
     "art.", "n.", "e.g.", "cf.", "i.e.", "et.", "al.",
     "cir.", "pet.", "op.", "cert.", "reh.", "aff.", "mem.",
     "s.w.2d", "s.w.3d", "n.w.2d", "n.e.2d", "s.e.2d", "so.2d",
     "so.3d", "f.2d", "f.3d", "f.4th", "l.ed.", "l.ed.2d", "s.ct."}

\* the quote characters that may open a sentence
SentenceQuotes == {"\"", "'"}

\* _get_word_ending_at: the run of alphanumerics, periods and hyphens that
\* ends at offset pos, the character at pos included
PB_get_word_ending_at(txt, pos) ==
    Slice(txt, LastNotIn(txt, pos - 1, AlnumChars \cup {".", "-"}) + 1, pos + 1)

\* a variant that compares the word with the abbreviations as written
PB_is_abbrev_case_sensitive(word_before, rest) == word_before \in PB_LEGAL_ABBREVS

\* lines 813-830: is_abbrev for the word before the mark and the text after it
PB_is_abbrev(word_before, rest) ==
    \/ Lower(word_before) \in PB_LEGAL_ABBREVS
    \/ /\ Len(word_before) = 2
       /\ Len(rest) >= 2
       /\ At(rest, 0) \in AlphaChars
       /\ At(rest, 1) = "."
       /\ \/ Lower(word_before \o At(rest, 0) \o ".") \in PB_LEGAL_ABBREVS
          \/ /\ LowerCh(At(word_before, 0)) \in {"u", "n", "s", "e", "w"}
             /\ LowerCh(At(rest, 0)) \in {"s", "y", "e", "w", "t", "c"}

\* lines 802-834: whether the character at offset i ends a sentence
PB_ends_sentence(txt, i) ==
    LET After(rest) ==
            \/ rest = ""
            \/ /\ At(rest, 0) \in UpperChars \cup SentenceQuotes
               /\ ~PB_is_abbrev(PB_get_word_ending_at(txt, i), rest)
    IN  /\ At(txt, i) \in {".", "!", "?"}
        /\ After(LStrip(From(txt, i + 1)))

SegmentExample == "See Smith v. State, 123 S.W.3d 456 (Tex. 2020). The court erred."

\* the texts segment_sentences is run on
SegInputs ==
    { SegmentExample,
      "The U.S. Code applies. See id. at 5. Done",
      "He sued Acme Inc. The court agreed! \"Why?\" It ended in Tex.  ",
      "Roe v. Wade, 410 U.S. 113. T. S. Eliot wrote. A.B. Co. Ltd. lost",
      "It held. \"and so\" it ended. \"Then\" he left",
      "no mark in this text",
      "  ",
      "" }

\* one pass of the loop over the characters
SegmentStep ==
    /\ seg_phase = "scan"
    /\ seg_i < Len(seg_text)
    /\ IF PB_ends_sentence(seg_text, seg_i)
       THEN /\ sentences' = Append(sentences, Strip(seg_current \o At(seg_text, seg_i)))
            /\ seg_current' = ""
       ELSE /\ seg_current' = seg_current \o At(seg_text, seg_i)
            /\ sentences' = sentences
    /\ seg_i' = seg_i + 1
    /\ UNCHANGED <<seg_phase, seg_text>>
    /\ UNCHANGED <<caVars, clVars, pbVars, runVars, layVars, sigVars, xpVars>>

\* a variant that drops what is left after the loop
SegmentFinish_drop_rest ==
    /\ seg_phase = "scan"
    /\ seg_i = Len(seg_text)
    /\ sentences' = sentences
    /\ seg_phase' = "done"
    /\ UNCHANGED <<seg_text, seg_i, seg_current>>
    /\ UNCHANGED <<caVars, clVars, pbVars, runVars, layVars, sigVars, xpVars>>

\* lines 838-843: what is left after the loop
SegmentFinish ==
    /\ seg_phase = "scan"
    /\ seg_i = Len(seg_text)
    /\ sentences' = IF seg_current # "" /\ Strip(seg_current) # ""
                    THEN Append(sentences, Strip(seg_current)) ELSE sentences
    /\ seg_phase' = "done"
    /\ UNCHANGED <<seg_text, seg_i, seg_current>>
    /\ UNCHANGED <<caVars, clVars, pbVars, runVars, layVars, sigVars, xpVars>>

InitSegment ==
    /\ seg_text \in SegInputs
    /\ seg_phase = "scan"
    /\ seg_i = 0
    /\ seg_current = ""
    /\ sentences = <<>>
    /\ IdleAnalyzer
    /\ IdleParse
    /\ IdleRun
    /\ IdleLayout
    /\ IdleSignal
    /\ IdlePropositions

NextSegment == SegmentStep \/ SegmentFinish

SpecSegment == InitSegment /\ [][NextSegment]_vars

\* C8: segment_sentences ends no sentence at a period that text follows and
\* whose trailing alphanumeric/period/hyphen word is a known abbreviation,
\* also when the next non-space character is upper case; SegmentExample is
\* split into exactly two sentences.
C8_AbbreviationsDoNotSplit ==
    [][/\ (/\ seg_i' = seg_i + 1
           /\ Len(sentences') > Len(sentences)
           /\ LStrip(From(seg_text, seg_i + 1)) # "")
          => Lower(PB_get_word_ending_at(seg_text, seg_i)) \notin PB_LEGAL_ABBREVS
       /\ (seg_phase' = "done" /\ seg_text = SegmentExample)
          => sentences' = <<"See Smith v. State, 123 S.W.3d 456 (Tex. 2020).",
                            "The court erred.">>
    ]_vars

C8_Witness ==
    /\ seg_phase = "done"
    /\ seg_text = SegmentExample
    /\ Len(sentences) = 2


\* C17: a '.', '!' or '?' that text follows ends a sentence only if the next
\* non-space character is an upper-case letter, or a quotation mark that is
\* itself followed by an upper-case letter, and the word the mark ends is no
\* known abbreviation; a mark followed by a quotation mark and a lower-case
\* letter ends no sentence.
C17_BoundaryNeedsCapital ==
    [][(/\ seg_i' = seg_i + 1
        /\ Len(sentences') > Len(sentences))
       => \A rest \in {LStrip(From(seg_text, seg_i + 1))} :
             rest # ""
             => /\ \/ At(rest, 0) \in UpperChars
                   \/ /\ At(rest, 0) \in SentenceQuotes
                      /\ Len(rest) >= 2
                      /\ At(rest, 1) \in UpperChars
                /\ Lower(PB_get_word_ending_at(seg_text, seg_i)) \notin PB_LEGAL_ABBREVS
    ]_vars

\* s without its whitespace characters
RECURSIVE NoSpace(_)
NoSpace(s) ==
    IF s = "" THEN ""
    ELSE (IF At(s, 0) \in Whitespace THEN "" ELSE At(s, 0)) \o NoSpace(From(s, 1))

RECURSIVE JoinAll(_)
JoinAll(seq) == IF seq = <<>> THEN "" ELSE Head(seq) \o JoinAll(Tail(seq))

PB_SIGNALS_SORTED ==
    <<"see generally", "see, e.g.,", "see also", "but see", "but cf.", "compare",
      "contra", "accord", "citing", "e.g.,", "see", "cf.">>

\* PAREN_VERBS
PB_PAREN_VERBS ==
    {"holding", "stating", "finding", "noting", "explaining", "observing",
     "concluding", "reasoning", "emphasizing", "recognizing", "determining",
     "clarifying", "reaffirming", "affirming", "reversing", "quoting",
     "citing", "discussing", "describing", "providing", "defining"}

\* look-back of _find_signal_before
PB_SIGNAL_LOOKBACK == 30

\* the window in which _find_parenthetical_after looks for the opening
\* parenthesis, and the one in which it looks for the verb
PB_PAREN_WINDOW == 200

PB_VERB_WINDOW == 50

\* the farthest a pin cite may lie beyond the start page
PB_MAX_PIN_DISTANCE == 500

\* a Python value used as a condition: None and '' are false
TruthyStr(o) == IsSome(o) /\ Val(o) # ""

\* _find_signal_before: the first signal of SIGNALS_SORTED that ends the
\* lower-cased, right-stripped look-back text
PB_find_signal_before(txt, pos) ==
    LET Pick(ks) == IF ks = {} THEN None ELSE Some(PB_SIGNALS_SORTED[MinOf(ks)])
        Ending(preceding) ==
            Pick({k \in 1..Len(PB_SIGNALS_SORTED) : EndsWith(preceding, PB_SIGNALS_SORTED[k])})
    IN  Ending(Lower(RStrip(Slice(txt, pos - Min2(pos, PB_SIGNAL_LOOKBACK), pos))))

\* lines 997-1004: the offset of the parenthesis that closes the one opened
\* just before paren_start; -1 when the text ends first
PB_matching_close(txt, paren_start) ==
    LET Depth(j) == 1 + Cardinality({k \in paren_start..j : At(txt, k) = "("})
                      - Cardinality({k \in paren_start..j : At(txt, k) = ")"})
    IN  MinOr({j \in paren_start..Len(txt) - 1 : Depth(j) = 0}, -1)

\* _find_parenthetical_after: the text between the parentheses, stripped, when
\* the parenthetical opens with an explanatory verb
PB_find_parenthetical_after(txt, pos) ==
    LET Closed(paren_start, close) ==
            IF close < 0 THEN None ELSE Some(Strip(Slice(txt, paren_start, close)))
        Explained(paren_start, after_paren) ==
            IF \E v \in PB_PAREN_VERBS : StartsWith(after_paren, v)
            THEN Closed(paren_start, PB_matching_close(txt, paren_start))
            ELSE None
        Opened(search, open) ==
            IF open < Len(search) /\ At(search, open) = "("
            THEN Explained(pos + open + 1,
                           Lower(LStrip(Slice(txt, pos + open + 1,
                                              pos + open + 1 + PB_VERB_WINDOW))))
            ELSE None
        Search(search) == Opened(search, FirstNotIn(search, 0, Whitespace))
    IN  Search(Slice(txt, pos, pos + PB_PAREN_WINDOW))

\* re.sub(r'\s*\[sic\]\s*', '', s, flags=re.IGNORECASE)
RECURSIVE RemoveSic(_)
RemoveSic(s) ==
    LET Cut(k) ==
            IF k < 0 THEN s
            ELSE Slice(s, 0, LastNotIn(s, k - 1, Whitespace) + 1)
                 \o RemoveSic(From(s, FirstNotIn(s, k + 5, Whitespace)))
    IN  Cut(Find(Lower(s), "[sic]"))

\* re.sub(r'^\d+\s+', '', s)
StripLeadingNumber(s) ==
    LET Cut(d, w) == IF d > 0 /\ w > d THEN From(s, w) ELSE s
        Digits(d) == Cut(d, FirstNotIn(s, d, Whitespace))
    IN  Digits(FirstNotIn(s, 0, DigitChars))

\* _get_case_name: the cleaned "plaintiff v. defendant" of a recognizer
\* token, the plaintiff alone without a defendant, None without a plaintiff
PB_get_case_name(cite) ==
    LET Clean(name) ==
            StripLeadingNumber(RemoveSic(RStripChars(name, {".", ",", ";", ":"})))
        BeforeComma(defendant) ==
            IF defendant # "" /\ Contains(defendant, ",")
            THEN Strip(Slice(defendant, 0, Find(defendant, ","))) ELSE defendant
        Named(plaintiff, defendant) ==
            IF plaintiff = "" \/ Lower(plaintiff) = "[sic]" THEN None
            ELSE IF defendant # "" THEN Some(plaintiff \o " v. " \o defendant)
            ELSE Some(plaintiff)
    IN  IF ~TruthyStr(cite.plaintiff) THEN None
        ELSE Named(Clean(Strip(Val(cite.plaintiff))),
                   Clean(BeforeComma(IF IsSome(cite.defendant)
                                     THEN Strip(Val(cite.defendant)) ELSE "")))

\* the value of a decimal digit
DigitVal(c) == CHOOSE d \in 0..9 : SubSeq(DigitSeq, d + 1, d + 1) = c

\* int(s) for a string of decimal digits
RECURSIVE DigitsValue(_)
DigitsValue(s) ==
    IF s = "" THEN 0
    ELSE 10 * DigitsValue(SubSeq(s, 1, Len(s) - 1)) + DigitVal(SubSeq(s, Len(s), Len(s)))

\* int(s): Some(n) for a string of decimal digits, None where int raises
\* ValueError
ParseInt(s) ==
    IF s # "" /\ FirstNotIn(s, 0, DigitChars) = Len(s) THEN Some(DigitsValue(s))
    ELSE None

\* get_start_page: the last word of the first citation string of the record
\* that has at least three words and whose last word is a number
RECURSIVE StartPageFrom(_, _)
StartPageFrom(citations, k) ==
    LET Parts(parts) ==
            IF Len(parts) >= 3 /\ IsSome(ParseInt(parts[Len(parts)]))
            THEN ParseInt(parts[Len(parts)])
            ELSE StartPageFrom(citations, k + 1)
    IN  IF k > Len(citations) THEN None ELSE Parts(Split(citations[k]))

PB_get_start_page(cl_record) == StartPageFrom(cl_record.citation, 1)

\* re.search(r'(\d+)', pin_cite): the first run of digits as a number, or None
PinPage(pin_cite) ==
    LET Run(a) == IF a >= Len(pin_cite) THEN None
                  ELSE Some(DigitsValue(Slice(pin_cite, a,
                                              FirstNotIn(pin_cite, a, DigitChars))))
    IN  Run(FirstIn(pin_cite, 0, DigitChars))

\* a variant without the upper end of the window
PB_is_valid_pin_cite_unbounded(pin_cite, start_page) ==
    \/ pin_cite = ""
    \/ PinPage(pin_cite) = None
    \/ Val(PinPage(pin_cite)) >= start_page

\* is_valid_pin_cite
PB_is_valid_pin_cite(pin_cite, start_page) ==
    \/ pin_cite = ""
    \/ PinPage(pin_cite) = None
    \/ /\ Val(PinPage(pin_cite)) >= start_page
       /\ Val(PinPage(pin_cite)) <= start_page + PB_MAX_PIN_DISTANCE

\* ------------------------------------------------------------------------
\* Inputs of parse_brief: the sentences and block-quote paragraphs of the
\* Argument section, the tokens the citation recognizer finds in each, and
\* what the CourtListener service holds
\* ------------------------------------------------------------------------

\* the documents one process parses
MaxDocs == 2

\* the citations a unit is built from, with the recognizer's groups and
\* metadata
ParseSegPool ==
    << [gap |-> "", name |-> "Doe v. Roe, ", base |-> "1 U.S. 100", post |-> " (2000)",
        tail |-> ".", kind |-> "FullCaseCitation", plaintiff |-> Some("Doe"),
        defendant |-> Some("Roe"), volume |-> Some("1"), reporter |-> Some("U.S."),
        page |-> Some("100"), pin_cite |-> None],
       [gap |-> "", name |-> "", base |-> "Id. at 105", post |-> "",
        tail |-> ".", kind |-> "IdCitation", plaintiff |-> None,
        defendant |-> None, volume |-> None, reporter |-> None,
        page |-> None, pin_cite |-> Some("at 105")],
       [gap |-> "", name |-> "", base |-> "Id. at 900", post |-> "",
        tail |-> ".", kind |-> "IdCitation", plaintiff |-> None,
        defendant |-> None, volume |-> None, reporter |-> None,
        page |-> None, pin_cite |-> Some("at 900")],
       [gap |-> "See ", name |-> "Smith v. State, ", base |-> "123 S.W.3d 456",
        post |-> " (Tex. 2020)", tail |-> "", kind |-> "FullCaseCitation",
        plaintiff |-> Some("Smith"), defendant |-> Some("State, 123 S.W.3d"),
        volume |-> Some("123"), reporter |-> Some("S.W.3d"),
        page |-> Some("456"), pin_cite |-> None],
       [gap |-> "; ", name |-> "", base |-> "id. at 460", post |-> "",
        tail |-> ".", kind |-> "IdCitation", plaintiff |-> None,
        defendant |-> None, volume |-> None, reporter |-> None,
        page |-> None, pin_cite |-> Some("at 460")],
       [gap |-> "But see ", name |-> "Lee v. Ray, ", base |-> "6 U.S. 7",
        post |-> " (2002)", tail |-> " (holding that the statute applies).",
        kind |-> "FullCaseCitation", plaintiff |-> Some("Lee"),
        defendant |-> Some("Ray"), volume |-> Some("6"), reporter |-> Some("U.S."),
        page |-> Some("7"), pin_cite |-> None],
       [gap |-> "", name |-> "", base |-> "Id.", post |-> "",
        tail |-> "", kind |-> "IdCitation", plaintiff |-> None,
        defendant |-> None, volume |-> None, reporter |-> None,
        page |-> None, pin_cite |-> None],
       [gap |-> "", name |-> "Doe, ", base |-> "1 U.S. at 102", post |-> "",
        tail |-> ".", kind |-> "ShortCaseCitation", plaintiff |-> None,
        defendant |-> None, volume |-> Some("1"), reporter |-> Some("U.S."),
        page |-> Some("102"), pin_cite |-> Some("102")],
       [gap |-> "", name |-> "Doe, ", base |-> "1 U.S. at 50", post |-> "",
        tail |-> ".", kind |-> "ShortCaseCitation", plaintiff |-> None,
        defendant |-> None, volume |-> Some("1"), reporter |-> Some("U.S."),
        page |-> Some("50"), pin_cite |-> Some("50")],
       [gap |-> "", name |-> "Doe, ", base |-> "1 U.S. at xii", post |-> "",
        tail |-> ".", kind |-> "ShortCaseCitation", plaintiff |-> None,
        defendant |-> None, volume |-> Some("1"), reporter |-> Some("U.S."),
        page |-> Some("xii"), pin_cite |-> Some("xii")],
       [gap |-> "", name |-> "", base |-> "Doe, supra, at 105", post |-> "",
        tail |-> ".", kind |-> "SupraCitation", plaintiff |-> None,
        defendant |-> None, volume |-> None, reporter |-> None,
        page |-> None, pin_cite |-> Some("at 105")],
       [gap |-> "As held in ", name |-> "Doe v. Roe, ", base |-> "1 U.S. 100",
        post |-> " (2000)", tail |-> ":", kind |-> "FullCaseCitation",
        plaintiff |-> Some("Doe"), defendant |-> Some("Roe"), volume |-> Some("1"),
        reporter |-> Some("U.S."), page |-> Some("100"), pin_cite |-> None] >>

\* the units: a sentence of a body paragraph or a block-quote paragraph, as
\* the segments it is made of
UnitPool ==
    << [type |-> "sentence",    segs |-> <<1>>],
       [type |-> "sentence",    segs |-> <<2>>],
       [type |-> "sentence",    segs |-> <<3>>],
       [type |-> "sentence",    segs |-> <<4, 5>>],
       [type |-> "sentence",    segs |-> <<6>>],
       [type |-> "sentence",    segs |-> <<7>>],
       [type |-> "sentence",    segs |-> <<8>>],
       [type |-> "block_quote", segs |-> <<4, 5>>],
       [type |-> "sentence",    segs |-> <<9>>],
       [type |-> "sentence",    segs |-> <<10>>],
       [type |-> "sentence",    segs |-> <<11>>],
       [type |-> "sentence",    segs |-> <<12>>] >>

\* the documents, as sequences of units
DocPool ==
    { <<1, 2, 3>>, <<4>>, <<5, 6>>, <<1, 7, 6>>, <<4, 2>>, <<8, 3>>,
      <<1, 9, 10>>, <<1, 11>>, <<1, 3, 6>>, <<12, 8>>, <<1, 8>> }

PSegText(g) == g.gap \o g.name \o g.base \o g.post \o g.tail

RECURSIVE UnitText(_)
UnitText(segs) ==
    IF segs = <<>> THEN "" ELSE PSegText(ParseSegPool[Head(segs)]) \o UnitText(Tail(segs))

\* the recognizer's token for a segment that starts at offset off
PToken(g, off) ==
    [kind            |-> g.kind,
     span            |-> <<off + Len(g.gap) + Len(g.name),
                           off + Len(g.gap) + Len(g.name) + Len(g.base)>>,
     full_span_start |-> IF g.kind = "FullCaseCitation" THEN Some(off + Len(g.gap))
                         ELSE None,
     full_span_end   |-> IF g.kind = "FullCaseCitation"
                         THEN Some(off + Len(g.gap) + Len(g.name) + Len(g.base)
                                   + Len(g.post))
                         ELSE None,
     plaintiff |-> g.plaintiff, defendant |-> g.defendant, volume |-> g.volume,
     reporter |-> g.reporter, page |-> g.page, pin_cite |-> g.pin_cite]

RECURSIVE UnitTokens(_, _)
UnitTokens(segs, off) ==
    IF segs = <<>> THEN <<>>
    ELSE <<PToken(ParseSegPool[Head(segs)], off)>>
         \o UnitTokens(Tail(segs), off + Len(PSegText(ParseSegPool[Head(segs)])))

\* a document as parse_argument_section walks it
DocUnits(d) ==
    [k \in 1..Len(d) |-> [type   |-> UnitPool[d[k]].type,
                          text   |-> UnitText(UnitPool[d[k]].segs),
                          tokens |-> UnitTokens(UnitPool[d[k]].segs, 0)]]

\* the search result the service returns for a citation, when it has one
ServiceRecord(key) ==
    CASE key = "1|U.S.|100" ->
            Some([caseName |-> "Doe v. Roe", citation |-> <<"1 U.S. 100">>])
      [] key = "123|S.W.3d|456" ->
            Some([caseName |-> "Smith v. State", citation |-> <<"123 S.W.3d 456">>])
      [] OTHER -> None

\* ------------------------------------------------------------------------
\* CourtListenerClient.lookup_citation
\* ------------------------------------------------------------------------

\* cache_key
CacheKey(volume, reporter, page) == volume \o "|" \o reporter \o "|" \o page

\* the cache entry for a key; the cache holds one entry per key
CacheEntry(cache, key) == CHOOSE e \in cache : e.key = key

\* lookup_citation: the result and the cache it leaves.  A request that does
\* not reach the service, a status other than 200 and an empty result list
\* all store None under the key.
CL_lookup_citation(volume, reporter, page, token, cache, svc) ==
    LET Fetched(key, result) ==
            [result |-> result, cache |-> cache \cup {[key |-> key, value |-> result]}]
        Keyed(key) ==
            IF \E e \in cache : e.key = key
            THEN [result |-> CacheEntry(cache, key).value, cache |-> cache]
            ELSE Fetched(key, IF svc = "up" THEN ServiceRecord(key) ELSE None)
    IN  IF ~token THEN [result |-> None, cache |-> cache]
        ELSE Keyed(CacheKey(volume, reporter, page))

\* ------------------------------------------------------------------------
\* BriefParser.extract_citations_from_sentence: one pass of the loop
\* ------------------------------------------------------------------------

PB_cite_type(cite) ==
    CASE cite.kind = "FullCaseCitation"  -> "full_case"
      [] cite.kind = "ShortCaseCitation" -> "short_case"
      [] cite.kind = "IdCitation"        -> "id"
      [] cite.kind = "SupraCitation"     -> "supra"
      [] OTHER                           -> "unknown"

\* lines 864-871: the span of the citation
PB_span(cite) ==
    IF cite.kind = "FullCaseCitation"
    THEN <<IF IsSome(cite.full_span_start) THEN Val(cite.full_span_start) ELSE cite.span[1],
           IF IsSome(cite.full_span_end) THEN Val(cite.full_span_end) ELSE cite.span[2]>>
    ELSE cite.span

\* line 927: refers_to is the case name the sentence was entered with
PB_refers_to(cite_type, lastFull) == IF cite_type = "id" THEN lastFull ELSE None

\* lines 863-930: the citation built for one token, the case name carried on
\* and the cache the lookup leaves
PB_extract_one(normalized, cite, lastFull, newLastFull, token, cache, svc) ==
    LET Build(span, looked, case_name) ==
            [citation |->
               [text          |-> Slice(normalized, span[1], span[2]),
                case_name     |-> case_name,
                volume        |-> cite.volume,
                reporter      |-> cite.reporter,
                page          |-> cite.page,
                pin_cite      |-> cite.pin_cite,
                cite_type     |-> PB_cite_type(cite),
                span          |-> span,
                signal        |-> PB_find_signal_before(normalized, span[1]),
                parenthetical |-> PB_find_parenthetical_after(normalized, span[2]),
                refers_to     |-> PB_refers_to(PB_cite_type(cite), lastFull),
                cl_record     |-> looked.result],
             new_last_full |-> IF cite.kind = "FullCaseCitation" /\ TruthyStr(case_name)
                               THEN case_name ELSE newLastFull,
             cache |-> looked.cache]
        Named(span, looked) ==
            Build(span, looked,
                  IF IsSome(looked.result) /\ Val(looked.result).caseName # ""
                  THEN Some(Val(looked.result).caseName)
                  ELSE PB_get_case_name(cite))
    IN  Named(PB_span(cite),
              IF TruthyStr(cite.volume) /\ TruthyStr(cite.reporter) /\ TruthyStr(cite.page)
              THEN CL_lookup_citation(Val(cite.volume), Val(cite.reporter),
                                      Val(cite.page), token, cache, svc)
              ELSE [result |-> None, cache |-> cache])

\* ------------------------------------------------------------------------
\* propagate_cl_records: one pass of the loop of process_citations
\* ------------------------------------------------------------------------

\* a or b for two optional strings
OrStr(a, b) == IF TruthyStr(a) THEN a ELSE b

\* full_cites_by_key.get(key)
FullCiteFor(byKey, key) ==
    IF \E e \in byKey : e.key = key THEN Some((CHOOSE e \in byKey : e.key = key).cite)
    ELSE None

\* full_cites_by_key[key] = cite
FullCitePut(byKey, key, cite) ==
    {e \in byKey : e.key # key} \cup {[key |-> key, cite |-> cite]}

\* lines 1242-1250
PB_process_full(cite, byKey, lastCite, lastPin) ==
    [cite |-> cite,
     full_cites_by_key |->
        IF TruthyStr(cite.volume) /\ TruthyStr(cite.reporter)
        THEN FullCitePut(byKey, Val(cite.volume) \o "|" \o Val(cite.reporter), cite)
        ELSE byKey,
     last_cite     |-> IF IsSome(cite.cl_record) THEN Some(cite) ELSE lastCite,
     last_pin_cite |-> IF IsSome(cite.cl_record) THEN OrStr(cite.pin_cite, cite.page)
                       ELSE lastPin]

\* lines 1252-1277
PB_process_short(cite, byKey, lastCite, lastPin) ==
    LET Done(c) ==
            [cite |-> c, full_cites_by_key |-> byKey,
             last_cite     |-> IF IsSome(c.cl_record) THEN Some(c) ELSE lastCite,
             last_pin_cite |-> IF IsSome(c.cl_record) THEN OrStr(c.pin_cite, c.page)
                               ELSE lastPin]
        Inherit(full_cite) ==
            [cite EXCEPT !.cl_record = full_cite.cl_record,
                         !.case_name = OrStr(cite.case_name, full_cite.case_name)]
        Checked(full_cite, start_page) ==
            IF IsSome(start_page) /\ Val(start_page) # 0 /\ TruthyStr(cite.page)
            THEN IF IsSome(ParseInt(Val(cite.page)))
                    /\ Val(ParseInt(Val(cite.page))) >= Val(start_page)
                 THEN Inherit(full_cite) ELSE cite
            ELSE Inherit(full_cite)
        Matched(full_cite) ==
            IF IsSome(full_cite) /\ IsSome(Val(full_cite).cl_record)
            THEN Checked(Val(full_cite), PB_get_start_page(Val(Val(full_cite).cl_record)))
            ELSE cite
    IN  IF TruthyStr(cite.volume) /\ TruthyStr(cite.reporter)
        THEN Done(Matched(FullCiteFor(byKey, Val(cite.volume) \o "|" \o Val(cite.reporter))))
        ELSE Done(cite)

\* lines 1279-1307
PB_process_id(cite, byKey, lastCite, lastPin) ==
    LET Inherit(last, effective_pin) ==
            [cite EXCEPT !.cl_record = last.cl_record,
                         !.case_name = OrStr(cite.case_name, last.case_name),
                         !.pin_cite  = IF ~TruthyStr(cite.pin_cite) /\ TruthyStr(effective_pin)
                                       THEN effective_pin ELSE cite.pin_cite]
        Checked(last, start_page, effective_pin) ==
            [cite |->
                IF IsSome(start_page) /\ Val(start_page) # 0 /\ TruthyStr(effective_pin)
                THEN IF PB_is_valid_pin_cite(Val(effective_pin), Val(start_page))
                     THEN Inherit(last, effective_pin) ELSE cite
                ELSE Inherit(last, effective_pin),
             full_cites_by_key |-> byKey,
             last_cite     |-> lastCite,
             last_pin_cite |-> IF TruthyStr(cite.pin_cite) THEN cite.pin_cite
                               ELSE IF TruthyStr(effective_pin) THEN effective_pin
                               ELSE lastPin]
    IN  IF IsSome(lastCite) /\ IsSome(Val(lastCite).cl_record)
        THEN Checked(Val(lastCite), PB_get_start_page(Val(Val(lastCite).cl_record)),
                     OrStr(cite.pin_cite, lastPin))
        ELSE [cite |-> cite, full_cites_by_key |-> byKey,
              last_cite |-> lastCite, last_pin_cite |-> lastPin]

\* lines 1235-1307: the body of the loop for one citation
PB_process_one(cite, byKey, lastCite, lastPin) ==
    CASE cite.cite_type = "full_case"  -> PB_process_full(cite, byKey, lastCite, lastPin)
      [] cite.cite_type = "short_case" -> PB_process_short(cite, byKey, lastCite, lastPin)
      [] cite.cite_type = "id"         -> PB_process_id(cite, byKey, lastCite, lastPin)
      [] OTHER -> [cite |-> cite, full_cites_by_key |-> byKey,
                   last_cite |-> lastCite, last_pin_cite |-> lastPin]

\* ------------------------------------------------------------------------
\* parse_brief: a process that parses documents through get_cl_client()
\* ------------------------------------------------------------------------

\* main: get_cl_client() for the document a run is given
StartDocument ==
    /\ pb_phase = "idle"
    /\ docs_done < MaxDocs
    /\ \E d \in DocPool : doc' = DocUnits(d)
    /\ cl_client_made' = TRUE
    /\ cl_cache' = IF cl_client_made THEN cl_cache ELSE {}
    /\ pb_phase' = "prefetch"
    /\ parsed' = <<>>
    /\ parsed_units' = <<>>
    /\ u_idx' = 0
    /\ c_idx' = 0
    /\ last_full_cite' = None
    /\ new_last_full' = None
    /\ unit_citations' = <<>>
    /\ UNCHANGED <<api_token, service, docs_done, full_cites_by_key, last_cite,
                   last_pin_cite>>
    /\ UNCHANGED <<caVars, segVars, runVars, layVars, sigVars, xpVars>>

\* the (volume, reporter, page) keys prefetch_citations collects
DocKeys(units) ==
    UNION {{CacheKey(Val(units[u].tokens[k].volume), Val(units[u].tokens[k].reporter),
                     Val(units[u].tokens[k].page)) :
               k \in {j \in 1..Len(units[u].tokens) :
                         /\ TruthyStr(units[u].tokens[j].volume)
                         /\ TruthyStr(units[u].tokens[j].reporter)
                         /\ TruthyStr(units[u].tokens[j].page)}} :
           u \in 1..Len(units)}

\* batch_lookup: every key that is not cached is looked up
CL_batch_lookup(keys, token, cache, svc) ==
    IF ~token THEN cache
    ELSE cache \cup {[key |-> key, value |-> IF svc = "up" THEN ServiceRecord(key) ELSE None] :
                        key \in {k \in keys : ~\E e \in cache : e.key = k}}

\* main: prefetch_citations, then parse_argument_section is entered
PrefetchCitations ==
    /\ pb_phase = "prefetch"
    /\ cl_cache' = CL_batch_lookup(DocKeys(doc), api_token, cl_cache, service)
    /\ pb_phase' = "parse"
    /\ UNCHANGED <<api_token, cl_client_made, service, docs_done, doc, u_idx, c_idx,
                   last_full_cite, new_last_full, unit_citations, parsed,
                   parsed_units, full_cites_by_key, last_cite, last_pin_cite>>
    /\ UNCHANGED <<caVars, segVars, runVars, layVars, sigVars, xpVars>>

\* extract_citations_from_sentence: one citation of the current unit
ExtractCitation ==
    /\ pb_phase = "parse"
    /\ u_idx < Len(doc)
    /\ c_idx < Len(doc[u_idx + 1].tokens)
    /\ \E r \in {PB_extract_one(doc[u_idx + 1].text, doc[u_idx + 1].tokens[c_idx + 1],
                                last_full_cite, new_last_full, api_token, cl_cache,
                                service)} :
          /\ unit_citations' = Append(unit_citations, r.citation)
          /\ new_last_full' = r.new_last_full
          /\ cl_cache' = r.cache
    /\ c_idx' = c_idx + 1
    /\ UNCHANGED <<api_token, cl_client_made, service, docs_done, pb_phase, doc, u_idx,
                   last_full_cite, parsed, parsed_units, full_cites_by_key, last_cite,
                   last_pin_cite>>
    /\ UNCHANGED <<caVars, segVars, runVars, layVars, sigVars, xpVars>>

\* s[:-1]
AllButLast(s) == SubSeq(s, 1, Len(s) - 1)

\* re.search(r'[:;,~]\s*$', last_sent), U+2014 written "~"
PB_ends_with_intro_punctuation(last_sent) ==
    /\ RStrip(last_sent) # ""
    /\ At(RStrip(last_sent), Len(RStrip(last_sent)) - 1) \in {":", ";", ",", "~"}

\* lines 1041-1053: a block quote takes the last sentence of the body
\* paragraph before it as its intro when that sentence ends with intro
\* punctuation
PB_detaches_intro(unit, stored) ==
    /\ unit.type = "block_quote"
    /\ stored # <<>>
    /\ stored[Len(stored)].type = "sentence"
    /\ PB_ends_with_intro_punctuation(stored[Len(stored)].text)

\* extract_citations_from_sentence returns; parse_argument_section stores
\* the citations and carries the case name to the next unit
EndUnit ==
    /\ pb_phase = "parse"
    /\ u_idx < Len(doc)
    /\ c_idx = Len(doc[u_idx + 1].tokens)
    /\ \E unit \in {doc[u_idx + 1]} :
          IF PB_detaches_intro(unit, parsed_units)
          THEN /\ parsed' = Append(AllButLast(parsed), unit_citations)
               /\ parsed_units' =
                     Append(AllButLast(parsed_units),
                            [type |-> unit.type, text |-> unit.text,
                             intro |-> Some(parsed_units[Len(parsed_units)].text)])
          ELSE /\ parsed' = Append(parsed, unit_citations)
               /\ parsed_units' = Append(parsed_units,
                                         [type |-> unit.type, text |-> unit.text,
                                          intro |-> None])
    /\ last_full_cite' = new_last_full
    /\ unit_citations' = <<>>
    /\ u_idx' = u_idx + 1
    /\ c_idx' = 0
    /\ UNCHANGED <<clVars, docs_done, pb_phase, doc, new_last_full, full_cites_by_key,
                   last_cite, last_pin_cite>>
    /\ UNCHANGED <<caVars, segVars, runVars, layVars, sigVars, xpVars>>

\* propagate_cl_records is called on the parsed document
StartPropagate ==
    /\ pb_phase = "parse"
    /\ u_idx = Len(doc)
    /\ pb_phase' = "propagate"
    /\ u_idx' = 0
    /\ c_idx' = 0
    /\ full_cites_by_key' = {}
    /\ last_cite' = None
    /\ last_pin_cite' = None
    /\ UNCHANGED <<clVars, docs_done, doc, last_full_cite, new_last_full,
                   unit_citations, parsed, parsed_units>>
    /\ UNCHANGED <<caVars, segVars, runVars, layVars, sigVars, xpVars>>

\* process_citations: one citation of the current unit
PropagateCitation ==
    /\ pb_phase = "propagate"
    /\ u_idx < Len(parsed)
    /\ c_idx < Len(parsed[u_idx + 1])
    /\ \E r \in {PB_process_one(parsed[u_idx + 1][c_idx + 1], full_cites_by_key,
                                last_cite, last_pin_cite)} :
          /\ parsed' = [parsed EXCEPT ![u_idx + 1][c_idx + 1] = r.cite]
          /\ full_cites_by_key' = r.full_cites_by_key
          /\ last_cite' = r.last_cite
          /\ last_pin_cite' = r.last_pin_cite
    /\ c_idx' = c_idx + 1
    /\ UNCHANGED <<clVars, docs_done, pb_phase, doc, u_idx, last_full_cite,
                   new_last_full, unit_citations, parsed_units>>
    /\ UNCHANGED <<caVars, segVars, runVars, layVars, sigVars, xpVars>>

\* process_citations returns for a unit
PropagateEndUnit ==
    /\ pb_phase = "propagate"
    /\ u_idx < Len(parsed)
    /\ c_idx = Len(parsed[u_idx + 1])
    /\ u_idx' = u_idx + 1
    /\ c_idx' = 0
    /\ UNCHANGED <<clVars, docs_done, pb_phase, doc, last_full_cite, new_last_full,
                   unit_citations, parsed, parsed_units,
                   full_cites_by_key, last_cite, last_pin_cite>>
    /\ UNCHANGED <<caVars, segVars, runVars, layVars, sigVars, xpVars>>

\* propagate_cl_records returns: the document is finished
FinishDocument ==
    /\ pb_phase = "propagate"
    /\ u_idx = Len(parsed)
    /\ pb_phase' = "idle"
    /\ docs_done' = docs_done + 1
    /\ UNCHANGED <<clVars, doc, u_idx, c_idx, last_full_cite, new_last_full,
                   unit_citations, parsed, parsed_units,
                   full_cites_by_key, last_cite, last_pin_cite>>
    /\ UNCHANGED <<caVars, segVars, runVars, layVars, sigVars, xpVars>>

\* the service becomes unreachable, or reachable again
ServiceChange ==
    /\ service' = IF service = "up" THEN "down" ELSE "up"
    /\ UNCHANGED <<api_token, cl_client_made, cl_cache>>
    /\ UNCHANGED <<caVars, segVars, pbVars, runVars, layVars, sigVars, xpVars>>

InitParse ==
    /\ api_token \in BOOLEAN
    /\ cl_client_made = FALSE
    /\ cl_cache = {}
    /\ service \in {"up", "down"}
    /\ docs_done = 0
    /\ pb_phase = "idle"
    /\ doc = <<>>
    /\ u_idx = 0
    /\ c_idx = 0
    /\ last_full_cite = None
    /\ new_last_full = None
    /\ unit_citations = <<>>
    /\ parsed = <<>>
    /\ parsed_units = <<>>
    /\ full_cites_by_key = {}
    /\ last_cite = None
    /\ last_pin_cite = None
    /\ IdleAnalyzer
    /\ IdleSegment
    /\ IdleRun
    /\ IdleLayout
    /\ IdleSignal
    /\ IdlePropositions

NextParse ==
    \/ StartDocument
    \/ PrefetchCitations
    \/ ExtractCitation
    \/ EndUnit
    \/ StartPropagate
    \/ PropagateCitation
    \/ PropagateEndUnit
    \/ FinishDocument
    \/ ServiceChange

SpecParse == InitParse /\ [][NextParse]_vars

\* C25 (cross-reference propagation): propagate_cl_records handles the
\* citations of the parsed sentences one at a time in order and replaces each
\* in place, so no citation is dropped, duplicated or moved.
C25_PropagationInPlace ==
    [][PropagateCitation =>
          /\ Len(parsed') = Len(parsed)
          /\ \A u \in 1..Len(parsed) :
                /\ Len(parsed'[u]) = Len(parsed[u])
                /\ \A k \in 1..Len(parsed[u]) :
                      /\ parsed'[u][k].cite_type = parsed[u][k].cite_type
                      /\ parsed'[u][k].span = parsed[u][k].span
                      /\ parsed'[u][k].text = parsed[u][k].text
                      /\ (u # u_idx + 1 \/ k # c_idx + 1) => parsed'[u][k] = parsed[u][k]]_vars

\* ------------------------------------------------------------------------
\* Properties of parse_brief
\* ------------------------------------------------------------------------

PinExampleDoc == DocUnits(<<1, 2, 3>>)

\* C4: an Id citation processed while a last citation with a record exists,
\* with the record's start page s and an effective pin-cite page p (its own,
\* else the inherited one) both available, inherits the record and the case
\* name if and only if s <= p <= s + 500; otherwise its cl_record and
\* case_name stay empty.  With start page 100, "Id. at 105" inherits and a
\* later "Id. at 900" does not.
C4_IdPinWindow ==
    [][pb_phase = "propagate" /\ c_idx' = c_idx + 1 =>
         \A cite \in {parsed[u_idx + 1][c_idx + 1]} :
         \A after \in {parsed'[u_idx + 1][c_idx + 1]} :
            /\ (/\ cite.cite_type = "id"
                /\ IsSome(last_cite)
                /\ IsSome(Val(last_cite).cl_record))
               => \A s \in {PB_get_start_page(Val(Val(last_cite).cl_record))} :
                  \A pin \in {OrStr(cite.pin_cite, last_pin_cite)} :
                     (/\ IsSome(s) /\ Val(s) > 0
                      /\ TruthyStr(pin) /\ IsSome(PinPage(Val(pin))))
                     => \A p \in {Val(PinPage(Val(pin)))} :
                           IF Val(s) <= p /\ p <= Val(s) + 500
                           THEN /\ after.cl_record = Val(last_cite).cl_record
                                /\ after.case_name = Val(last_cite).case_name
                           ELSE /\ after.cl_record = None
                                /\ after.case_name = None
            /\ (/\ doc = PinExampleDoc
                /\ u_idx = 2
                /\ IsSome(parsed[1][1].cl_record))
               => /\ PB_get_start_page(Val(parsed[1][1].cl_record)) = Some(100)
                  /\ parsed'[2][1].cl_record = parsed[1][1].cl_record
                  /\ parsed'[3][1].cl_record = None
    ]_vars

C4_Witness ==
    /\ doc = PinExampleDoc
    /\ pb_phase = "idle"
    /\ docs_done > 0
    /\ IsSome(parsed[1][1].cl_record)
    /\ parsed[2][1].cl_record = parsed[1][1].cl_record
    /\ parsed[2][1].case_name = Some("Doe v. Roe")
    /\ parsed[3][1].cl_record = None
    /\ parsed[3][1].case_name = None

\* the citations extracted so far, in document order
RECURSIVE Flatten(_)
Flatten(units) == IF units = <<>> THEN <<>> ELSE Head(units) \o Flatten(Tail(units))

\* C28: every citation extracted from a sentence or a block quote is present
\* exactly once in the paragraphs parse_argument_section returns: when a
\* paragraph is stored, the citations stored so far and the citations of the
\* new paragraph are all there, also when the sentence before a block quote
\* is detached to become its intro.
C28_DetachKeepsCitations ==
    [][EndUnit => Flatten(parsed') = Flatten(parsed) \o unit_citations]_vars

\* the lemma for paragraphs that detach no intro
C28_KeptWithoutDetach ==
    [][(EndUnit /\ ~PB_detaches_intro(doc[u_idx + 1], parsed_units))
          => Flatten(parsed') = Flatten(parsed) \o unit_citations]_vars

\* the detached sentence is the intro of the block quote and no longer a
\* sentence of the body paragraph
C28_SentenceMoved ==
    [][(EndUnit /\ PB_detaches_intro(doc[u_idx + 1], parsed_units))
          => /\ parsed_units'[Len(parsed_units')].intro =
                   Some(parsed_units[Len(parsed_units)].text)
             /\ Len(parsed_units') = Len(parsed_units)
             /\ \A u \in 1..Len(parsed_units') :
                   parsed_units'[u].text # parsed_units[Len(parsed_units)].text]_vars

ExtractedCitations == Flatten(parsed) \o (IF pb_phase = "parse" THEN unit_citations ELSE <<>>)

\* the positions before k of the full-case citations with a case name
NamedFullBefore(cites, k) ==
    {j \in 1..k - 1 : cites[j].cite_type = "full_case" /\ TruthyStr(cites[j].case_name)}

\* C5: the refers_to of every Id citation is the case name of the most recent
\* full-case citation with a case name before it in document order, when
\* there is one, also when that citation stands earlier in the same sentence
\* or paragraph, and whether or not a record was found.
C5_RefersToLastFull ==
    \A cites \in {ExtractedCitations} :
    \A k \in 1..Len(cites) :
       (cites[k].cite_type = "id" /\ NamedFullBefore(cites, k) # {})
          => cites[k].refers_to = cites[MaxOf(NamedFullBefore(cites, k))].case_name

\* the position, in document order, of the citation process_citations is at
PropagatePos == Len(Flatten(SubSeq(parsed, 1, u_idx))) + c_idx + 1

\* the positions before k of the full-case citations with cite's volume and
\* reporter
SameKeyFullBefore(cites, k, cite) ==
    {j \in 1..k - 1 : /\ cites[j].cite_type = "full_case"
                      /\ cites[j].volume = cite.volume
                      /\ cites[j].reporter = cite.reporter}

\* C12: a short-case citation with a volume and a reporter is matched to the
\* nearest full-case citation before it with the same volume and reporter;
\* if that citation carries a record, the short citation inherits the record
\* and the case name when its page is a number >= the record's start page and
\* when the page cannot be validated (the start page or the page is missing,
\* or the page is not a number), and is left as it was when its page is a
\* number below the start page.
C12_ShortCaseInheritance ==
    [][pb_phase = "propagate" /\ c_idx' = c_idx + 1 =>
         \A cite \in {parsed[u_idx + 1][c_idx + 1]} :
         \A after \in {parsed'[u_idx + 1][c_idx + 1]} :
         \A prior \in {SameKeyFullBefore(Flatten(parsed), PropagatePos, cite)} :
            (/\ cite.cite_type = "short_case"
             /\ TruthyStr(cite.volume) /\ TruthyStr(cite.reporter)
             /\ prior # {})
            => \A full \in {Flatten(parsed)[MaxOf(prior)]} :
                  IsSome(full.cl_record)
                  => \A s \in {PB_get_start_page(Val(full.cl_record))} :
                        IF /\ IsSome(s) /\ TruthyStr(cite.page)
                           /\ IsSome(ParseInt(Val(cite.page)))
                           /\ Val(ParseInt(Val(cite.page))) < Val(s)
                        THEN after = cite
                        ELSE /\ after.cl_record = full.cl_record
                             /\ after.case_name = OrStr(cite.case_name, full.case_name)
    ]_vars

\* C13: a supra citation processed while a last citation with a record
\* exists inherits the record and the case name as an Id citation does:
\* always when the pin cite cannot be validated (no start page, or no
\* effective pin cite with a page number), otherwise exactly when the page
\* lies in [start page, start page + 500].
C13_SupraInheritance ==
    [][pb_phase = "propagate" /\ c_idx' = c_idx + 1 =>
         \A cite \in {parsed[u_idx + 1][c_idx + 1]} :
         \A after \in {parsed'[u_idx + 1][c_idx + 1]} :
            (/\ cite.cite_type = "supra"
             /\ IsSome(last_cite)
             /\ IsSome(Val(last_cite).cl_record))
            => \A s \in {PB_get_start_page(Val(Val(last_cite).cl_record))} :
               \A pin \in {OrStr(cite.pin_cite, last_pin_cite)} :
                  IF /\ IsSome(s) /\ Val(s) > 0
                     /\ TruthyStr(pin) /\ IsSome(PinPage(Val(pin)))
                     /\ ~(Val(s) <= Val(PinPage(Val(pin)))
                          /\ Val(PinPage(Val(pin))) <= Val(s) + 500)
                  THEN /\ after.cl_record = cite.cl_record
                       /\ after.case_name = cite.case_name
                  ELSE /\ after.cl_record = Val(last_cite).cl_record
                       /\ after.case_name = OrStr(cite.case_name, Val(last_cite).case_name)
    ]_vars

\* C14: a step of process_citations changes last_pin_cite only for a citation
\* that carries a record after the step: last_pin_cite becomes the citation's
\* own pin cite if it has one, and otherwise its effective pin cite (the page
\* of a full or short citation, the inherited pin cite of an Id citation).  A
\* citation left without a record, such as an Id citation outside the
\* 500-page window, leaves last_pin_cite and last_cite as they were.
C14_PinCiteTracking ==
    [][pb_phase = "propagate" /\ c_idx' = c_idx + 1 =>
         \A cite \in {parsed[u_idx + 1][c_idx + 1]} :
         \A after \in {parsed'[u_idx + 1][c_idx + 1]} :
            IF IsSome(after.cl_record)
            THEN last_pin_cite' =
                    OrStr(cite.pin_cite,
                          IF cite.cite_type = "id" THEN last_pin_cite ELSE cite.page)
            ELSE /\ last_pin_cite' = last_pin_cite
                 /\ last_cite' = last_cite
    ]_vars

\* the verb check of parenthetical_pattern at offset open of t: "(" followed
\* by an explanatory verb and "that"
VerbCheckAt(t, open) ==
    /\ open < Len(t)
    /\ At(t, open) = "("
    /\ \E v \in CA_PAREN_VERBS : StartsWith(Lower(From(t, open + 1)), v \o " that ")

\* C20: once the verb check passes, the parenthetical extends from the opening
\* "(" to the ")" that matches it by nesting depth, inner balanced
\* parentheses included; when the depth never returns to 0 before the end of
\* the text, no parenthetical is reported.
C20_ExtentByDepth ==
    \A i \in 1..Len(results) :
       \A c \in {results[i].citation} :
          \A open \in {FirstNotIn(text, c.end, Whitespace)} :
             VerbCheckAt(text, open) =>
                \A close \in {PB_matching_close(text, open + 1)} :
                   IF close < 0 THEN c.parenthetical = None
                   ELSE /\ IsSome(c.parenthetical)
                        /\ Val(c.parenthetical).start = open
                        /\ Val(c.parenthetical).end = close + 1
                        /\ Val(c.parenthetical).full_text = Slice(text, open, close + 1)

ParenExample == " (holding that the statute applies)"

\* C9: for a citation immediately followed by "(<verb> that <content>)" the
\* reported parenthetical is <content> alone, without the verb and "that":
\* "(holding that the statute applies)" yields "the statute applies".
C9_ParentheticalContent ==
    \A u \in 1..Len(parsed) :
    \A k \in 1..Len(parsed[u]) :
       /\ StartsWith(From(parsed_units[u].text, parsed[u][k].span[2]), ParenExample)
             => parsed[u][k].parenthetical = Some("the statute applies")
       /\ IsSome(parsed[u][k].parenthetical)
             => ~\E v \in PB_PAREN_VERBS :
                   StartsWith(Lower(Val(parsed[u][k].parenthetical)), v \o " that ")

\* C10: the record a lookup returns for a document's citation is the one a
\* process that had handled nothing before would get at the same moment: it
\* does not depend on the documents and lookups, failed ones included, that
\* went through the shared client's cache earlier.
C10_LookupIndependentOfHistory ==
    [][pb_phase = "parse" /\ c_idx' = c_idx + 1 =>
         \A cite \in {doc[u_idx + 1].tokens[c_idx + 1]} :
            (TruthyStr(cite.volume) /\ TruthyStr(cite.reporter) /\ TruthyStr(cite.page))
               => unit_citations'[c_idx + 1].cl_record
                     = CL_lookup_citation(Val(cite.volume), Val(cite.reporter),
                                          Val(cite.page), api_token, {}, service).result
    ]_vars

\* ------------------------------------------------------------------------
\* One run over a document: locating the Argument section
\* ------------------------------------------------------------------------

MaxPages == 2

\* the heading lines a page can carry
RunLinePool ==
    {"Argument", "ARGUMENT", " Reply Argument ", "Summary of the Argument",
     "Argument on sole ground:", "Arguments", "Prayer", "Index of Authorities",
     "Statement of Facts"}

\* a page: the lines of its text that can be headings and the citations
\* recognized in its text; one page holds a whole short argument, from its
\* heading to the heading that ends it
RunPages ==
    {[lines |-> <<l>>, cites |-> c] : l \in RunLinePool, c \in {{}, {"1|U.S.|100"}}}
       \cup {[lines |-> <<"Argument", "Conclusion">>, cites |-> {"1|U.S.|100"}]}

RunDocs == UNION {[1..n -> RunPages] : n \in 1..MaxPages}

\* re.compile(rf'^\s*{heading}\s*$', IGNORECASE | MULTILINE).search(page text)
HeadingMatches(lines, heading) ==
    \E k \in 1..Len(lines) : Lower(Strip(lines[k])) = Lower(heading)

\* re.compile(rf'^\s*{prefix}\b[^\n]*$', IGNORECASE | MULTILINE).search(page text)
PrefixMatches(lines, prefix) ==
    \E k \in 1..Len(lines) :
       /\ StartsWith(Lower(LStrip(lines[k])), Lower(prefix))
       /\ \/ Len(LStrip(lines[k])) = Len(prefix)
          \/ At(LStrip(lines[k]), Len(prefix)) \notin WordChars

\* find_section's loop over end_headings: the first heading found on a page
\* other than page 0 ends the search (`if end_page: break`)
RECURSIVE PB_end_page(_, _, _, _)
PB_end_page(pages, start_page, end_headings, end_page) ==
    IF end_headings = <<>> THEN end_page
    ELSE LET found == {i \in start_page..(Len(pages) - 1) :
                          HeadingMatches(pages[i + 1].lines, Head(end_headings))}
             new == IF found = {} THEN end_page ELSE Some(MinOf(found))
         IN  IF IsSome(new) /\ Val(new) # 0 THEN new
             ELSE PB_end_page(pages, start_page, Tail(end_headings), new)

\* the section dict for a start page (pages are numbered from 0)
PB_section(pages, start_page, end_headings) ==
    IF start_page < 0 THEN None
    ELSE Some([start_page |-> start_page,
               end_page |-> IF IsSome(PB_end_page(pages, start_page, end_headings, None))
                            THEN Val(PB_end_page(pages, start_page, end_headings, None))
                            ELSE Len(pages) - 1])

\* BriefParser.find_section
PB_find_section(pages, start_heading, end_headings) ==
    PB_section(pages,
               MinOr({i \in 0..(Len(pages) - 1) :
                         HeadingMatches(pages[i + 1].lines, start_heading)}, -1),
               end_headings)

\* BriefParser.find_section_by_prefix
PB_find_section_by_prefix(pages, start_prefix, end_headings) ==
    PB_section(pages,
               MinOr({i \in 0..(Len(pages) - 1) :
                         PrefixMatches(pages[i + 1].lines, start_prefix)}, -1),
               end_headings)

ArgumentEndHeadings == <<"Conclusion", "Prayer", "CONCLUSION", "PRAYER">>

\* parse_argument_section: the exact headings in turn, then the prefix
RECURSIVE PB_first_section(_, _)
PB_first_section(pages, starts) ==
    IF starts = <<>> THEN PB_find_section_by_prefix(pages, "Argument", ArgumentEndHeadings)
    ELSE IF IsSome(PB_find_section(pages, Head(starts), ArgumentEndHeadings))
         THEN PB_find_section(pages, Head(starts), ArgumentEndHeadings)
         ELSE PB_first_section(pages, Tail(starts))

PB_argument_section(pages) ==
    PB_first_section(pages, <<"Reply Argument", "Argument", "ARGUMENT", "REPLY ARGUMENT">>)

\* the case name a citation is given
RunCaseName(key) == IF key = "1|U.S.|100" THEN "Doe v. Roe" ELSE key

\* the case names cited on pages first..last (numbered from 0)
RunCases(pages, first, last) ==
    UNION {{RunCaseName(k) : k \in pages[i + 1].cites} :
              i \in {j \in first..last : j < Len(pages)}}

\* parse_argument_section: the error dict, or the argument with one
\* paragraph for each page of the section
PB_parse_argument_section(pages) ==
    IF ~IsSome(PB_argument_section(pages))
    THEN [NoParsed EXCEPT !.error = Some("Could not find Argument section")]
    ELSE [NoParsed EXCEPT !.argument =
             Some([i \in 1..(Val(PB_argument_section(pages)).end_page
                             - Val(PB_argument_section(pages)).start_page + 1) |->
                      RunCases(pages,
                               Val(PB_argument_section(pages)).start_page + i - 1,
                               Val(PB_argument_section(pages)).start_page + i - 1)])]

\* parsed.get('argument', {}).get('paragraphs', [])
RunParagraphs(p) == IF IsSome(p.argument) THEN Val(p.argument) ELSE <<>>

\* extract_toa_cases
PB_toa_section(pages) ==
    IF IsSome(PB_find_section(pages, "Index of Authorities",
                              <<"Statutes", "Rules", "Statement", "Argument", "Reply">>))
    THEN PB_find_section(pages, "Index of Authorities",
                         <<"Statutes", "Rules", "Statement", "Argument", "Reply">>)
    ELSE PB_find_section(pages, "Table of Authorities",
                         <<"Statutes", "Rules", "Statement", "Argument">>)

PB_extract_toa_cases(pages) ==
    IF ~IsSome(PB_toa_section(pages)) THEN {}
    ELSE RunCases(pages, Val(PB_toa_section(pages)).start_page,
                  Val(PB_toa_section(pages)).end_page)

\* extract_argument_cases
PB_extract_argument_cases(p) ==
    UNION {RunParagraphs(p)[i] : i \in 1..Len(RunParagraphs(p))}

\* PDFExtractor.find_section_boundaries (pages are numbered from 1)
BP_find_section_boundaries(pages, start_heading, end_heading) ==
    LET start_page == MinOr({i \in 1..Len(pages) :
                                HeadingMatches(pages[i].lines, start_heading)}, 0)
        EndFrom(sp) == MinOr({i \in sp..Len(pages) :
                                 HeadingMatches(pages[i].lines, end_heading)}, Len(pages))
    IN  IF start_page = 0 THEN None
        ELSE Some([start_page |-> start_page, end_page |-> EndFrom(start_page)])

\* process_brief: "Argument".."Prayer", then "ARGUMENT".."PRAYER"
BP_argument_section(pages) ==
    IF IsSome(BP_find_section_boundaries(pages, "Argument", "Prayer"))
    THEN BP_find_section_boundaries(pages, "Argument", "Prayer")
    ELSE BP_find_section_boundaries(pages, "ARGUMENT", "PRAYER")

\* process_brief's result: the items of the section's pages and the metadata
BP_result(pages, section) ==
    [items |-> [i \in 1..(section.end_page - section.start_page + 1) |->
                   RunCases(pages, section.start_page + i - 2,
                            section.start_page + i - 2)],
     metadata |-> [start_page |-> section.start_page, end_page |-> section.end_page]]

\* main, up to the call of parse_argument_section: get_cl_client() and, with
\* a token, prefetch_citations
MainStart ==
    /\ run_pc = "idle"
    /\ \E d \in RunDocs :
          /\ run_doc' = d
          /\ cl_cache' = CL_batch_lookup(UNION {d[i].cites : i \in 1..Len(d)}, api_token,
                                         IF cl_client_made THEN cl_cache ELSE {}, service)
    /\ run_kind' = "cli"
    /\ cl_client_made' = TRUE
    /\ run_stdout' = IF api_token THEN <<"Fetching citations from CourtListener">>
                     ELSE <<"No COURTLISTENER_API_TOKEN set, using eyecite only">>
    /\ run_pc' = "parse"
    /\ UNCHANGED <<api_token, service, run_parsed, run_file, run_raised, run_result>>
    /\ UNCHANGED <<caVars, segVars, pbVars, layVars, sigVars, xpVars>>

\* main: parsed = parse_argument_section(cl_client); propagate_cl_records(parsed)
\* walks parsed.get('argument', {}) and finds nothing in an error dict
MainParse ==
    /\ run_kind = "cli"
    /\ run_pc = "parse"
    /\ run_parsed' = PB_parse_argument_section(run_doc)
    /\ run_pc' = "summary"
    /\ UNCHANGED <<run_kind, run_doc, run_stdout, run_file, run_raised, run_result>>
    /\ UNCHANGED <<caVars, segVars, clVars, pbVars, layVars, sigVars, xpVars>>

\* main: the case lists, parsed['summary'] and the printed summary
MainSummary ==
    /\ run_kind = "cli"
    /\ run_pc = "summary"
    /\ run_parsed' = [run_parsed EXCEPT !.summary =
                         Some([toa_cases |-> PB_extract_toa_cases(run_doc),
                               argument_cases |-> PB_extract_argument_cases(run_parsed)])]
    /\ run_stdout' = run_stdout \o <<"TOA cases", "Argument cases", "Cases match">>
    /\ run_pc' = "count"
    /\ UNCHANGED <<run_kind, run_doc, run_file, run_raised, run_result>>
    /\ UNCHANGED <<caVars, segVars, clVars, pbVars, layVars, sigVars, xpVars>>

\* main: len(parsed['argument']['paragraphs']) and the counts; a missing
\* key raises KeyError, which leaves main through `finally: parser.close()`
MainCount ==
    /\ run_kind = "cli"
    /\ run_pc = "count"
    /\ IF IsSome(run_parsed.argument)
       THEN /\ run_stdout' = run_stdout \o <<"Paragraphs", "Sentences", "Block quotes",
                                              "Citations">>
            /\ run_pc' = "propositions"
            /\ UNCHANGED run_raised
       ELSE /\ run_raised' = Some([type |-> "KeyError", message |-> "'argument'"])
            /\ run_pc' = "failed"
            /\ UNCHANGED run_stdout
    /\ UNCHANGED <<run_kind, run_doc, run_parsed, run_file, run_result>>
    /\ UNCHANGED <<caVars, segVars, clVars, pbVars, layVars, sigVars, xpVars>>

\* main: parsed['propositions'] = extract_propositions(parsed), one for each
\* paragraph that cites a case
MainPropositions ==
    /\ run_kind = "cli"
    /\ run_pc = "propositions"
    /\ run_parsed' = [run_parsed EXCEPT !.propositions =
                         Some(SelectSeq(RunParagraphs(run_parsed), LAMBDA c : c # {}))]
    /\ run_stdout' = run_stdout \o <<"Propositions">>
    /\ run_pc' = "save"
    /\ UNCHANGED <<run_kind, run_doc, run_file, run_raised, run_result>>
    /\ UNCHANGED <<caVars, segVars, clVars, pbVars, layVars, sigVars, xpVars>>

\* main: json.dump(parsed) to the output file
MainSave ==
    /\ run_kind = "cli"
    /\ run_pc = "save"
    /\ run_file' = Some(run_parsed)
    /\ run_stdout' = run_stdout \o <<"Output">>
    /\ run_pc' = "done"
    /\ UNCHANGED <<run_kind, run_doc, run_parsed, run_raised, run_result>>
    /\ UNCHANGED <<caVars, segVars, clVars, pbVars, layVars, sigVars, xpVars>>

\* BriefProcessor.process_brief on a document
ProcessBrief ==
    /\ run_pc = "idle"
    /\ run_kind' = "backend"
    /\ \E d \in RunDocs :
          /\ run_doc' = d
          /\ IF IsSome(BP_argument_section(d))
             THEN /\ run_result' = Some(BP_result(d, Val(BP_argument_section(d))))
                  /\ run_pc' = "done"
                  /\ UNCHANGED run_raised
             ELSE /\ run_raised' = Some([type |-> "ValueError",
                                         message |-> "Could not find Argument section in the brief"])
                  /\ run_pc' = "failed"
                  /\ UNCHANGED run_result
    /\ UNCHANGED <<run_parsed, run_stdout, run_file>>
    /\ UNCHANGED <<caVars, segVars, clVars, pbVars, layVars, sigVars, xpVars>>

InitRun ==
    /\ IdleAnalyzer
    /\ IdleSegment
    /\ api_token \in BOOLEAN
    /\ cl_client_made = FALSE
    /\ cl_cache = {}
    /\ service \in {"up", "down"}
    /\ docs_done = 0 /\ pb_phase = "idle" /\ doc = <<>>
    /\ u_idx = 0 /\ c_idx = 0 /\ last_full_cite = None /\ new_last_full = None
    /\ unit_citations = <<>> /\ parsed = <<>> /\ parsed_units = <<>>
    /\ full_cites_by_key = {}
    /\ last_cite = None /\ last_pin_cite = None
    /\ IdleRun
    /\ IdleLayout
    /\ IdleSignal
    /\ IdlePropositions

NextRun ==
    \/ MainStart
    \/ MainParse
    \/ MainSummary
    \/ MainCount
    \/ MainPropositions
    \/ MainSave
    \/ ProcessBrief

SpecRun == InitRun /\ [][NextRun]_vars

\* ------------------------------------------------------------------------
\* Properties of a run
\* ------------------------------------------------------------------------

\* the run has looked for the Argument section and has not found it
SectionNotFound ==
    \/ run_kind = "cli" /\ run_pc \notin {"idle", "parse"}
          /\ ~IsSome(PB_argument_section(run_doc))
    \/ run_kind = "backend" /\ run_pc \notin {"idle"}
          /\ ~IsSome(BP_argument_section(run_doc))

\* C11: when no Argument section heading is found, the run ends with an
\* error that names the missing section, and no partial output exists: no
\* items, no propositions and no summary are returned, printed or written.
C11_SectionNotFoundIsFatal ==
    SectionNotFound =>
        /\ run_parsed.summary = None
        /\ run_parsed.propositions = None
        /\ run_parsed.argument = None
        /\ run_result = None
        /\ run_file = None
        /\ \A i \in 1..Len(run_stdout) :
              run_stdout[i] \notin {"TOA cases", "Argument cases", "Cases match"}
        /\ run_pc \in {"done", "failed"} =>
              /\ IsSome(run_raised)
              /\ Val(run_raised).type \in {"ValueError", "SectionNotFound"}

\* the pages, numbered from 0, that carry a heading
PagesWith(pages, from, heading) ==
    {i \in from..(Len(pages) - 1) : HeadingMatches(pages[i + 1].lines, heading)}

\* the end headings, by their place in the list, found on a page at or after
\* a start page
EndHeadingsFound(pages, start_page, end_headings) ==
    {h \in 1..Len(end_headings) : PagesWith(pages, start_page, end_headings[h]) # {}}

\* the first page at or after the start page that carries the first end
\* heading found, and the last page when none is found
SectionEnd(pages, start_page, end_headings) ==
    IF EndHeadingsFound(pages, start_page, end_headings) = {} THEN Len(pages) - 1
    ELSE MinOf(PagesWith(pages, start_page,
                         end_headings[MinOf(EndHeadingsFound(pages, start_page,
                                                             end_headings))]))

ArgumentStartHeadings == {"Reply Argument", "Argument", "ARGUMENT", "REPLY ARGUMENT"}

\* the run has called parse_argument_section on its document
SectionSought == run_kind = "cli" /\ run_pc \notin {"idle", "parse"}

\* C30: find_section returns nothing exactly when no page carries the start
\* heading; otherwise start_page <= end_page <= the last page, and end_page
\* is the first page at or after start_page that carries the first end
\* heading (in list order) found on such a page, the last page when none is
\* found; also when that end heading is on page 0.
C30_SectionBounds ==
    SectionSought =>
       \A h \in ArgumentStartHeadings :
       \A sec \in {PB_find_section(run_doc, h, ArgumentEndHeadings)} :
          /\ ~IsSome(sec) <=> PagesWith(run_doc, 0, h) = {}
          /\ IsSome(sec) =>
                /\ Val(sec).start_page = MinOf(PagesWith(run_doc, 0, h))
                /\ Val(sec).start_page <= Val(sec).end_page
                /\ Val(sec).end_page <= Len(run_doc) - 1
                /\ Val(sec).end_page =
                      SectionEnd(run_doc, Val(sec).start_page, ArgumentEndHeadings)

\* the lemma for an end heading that is not on page 0
C30_BoundsPastPageZero ==
    SectionSought =>
       \A h \in ArgumentStartHeadings :
       \A sec \in {PB_find_section(run_doc, h, ArgumentEndHeadings)} :
          /\ ~IsSome(sec) <=> PagesWith(run_doc, 0, h) = {}
          /\ IsSome(sec) =>
                /\ Val(sec).start_page = MinOf(PagesWith(run_doc, 0, h))
                /\ Val(sec).start_page <= Val(sec).end_page
                /\ Val(sec).end_page <= Len(run_doc) - 1
                /\ SectionEnd(run_doc, Val(sec).start_page, ArgumentEndHeadings) # 0
                      => Val(sec).end_page =
                            SectionEnd(run_doc, Val(sec).start_page, ArgumentEndHeadings)

\* the lemma for PDFExtractor.find_section_boundaries, whose pages are
\* numbered from 1 and which takes one end heading
C30_BoundariesOfExtractor ==
    (run_kind = "backend" /\ run_pc # "idle") =>
       \A sec \in {BP_find_section_boundaries(run_doc, "Argument", "Prayer")} :
          /\ ~IsSome(sec) <=> PagesWith(run_doc, 0, "Argument") = {}
          /\ IsSome(sec) =>
                /\ Val(sec).start_page = MinOf(PagesWith(run_doc, 0, "Argument")) + 1
                /\ Val(sec).start_page <= Val(sec).end_page
                /\ Val(sec).end_page <= Len(run_doc)
                /\ Val(sec).end_page =
                      SectionEnd(run_doc, Val(sec).start_page - 1, <<"Prayer">>) + 1

\* ------------------------------------------------------------------------
\* Layout: margins and the grouping of a section's blocks
\* ------------------------------------------------------------------------

MaxBlocks == 4

\* len(text.strip()) > 30: a block with substantial content
PB_SUBSTANTIAL == 30

\* the fallback offsets of the two _calculate_margins
PB_FALLBACK_INDENT == 36
PX_FALLBACK_INDENT == 20

\* abs(x0 - body_margin) > 100: a header or footer
HEADER_DISTANCE == 100

\* extract_paragraphs: indent > 25 is a block-quote indent, <= 10 is body
PB_QUOTE_INDENT == 25
PB_BODY_INDENT == 10

\* extract_section_with_blockquotes: x0 > body_margin + 3
PX_INDENT_TOLERANCE == 3

\* a text block of the section: its rounded x0 and the length of its text
LayBlockPool ==
    {[x0 |-> x, len |-> n] : x \in {72, 90, 108}, n \in {12, 80}}
       \cup {[x0 |-> 300, len |-> 2]}

LayInputs == UNION {[1..n -> LayBlockPool] : n \in 1..MaxBlocks}

\* x0_counts: the count of an x0 among the substantial blocks, and the
\* position at which it was first counted
X0Positions(blocks, x) ==
    {i \in 1..Len(blocks) : blocks[i].len > PB_SUBSTANTIAL /\ blocks[i].x0 = x}

X0Clusters(blocks) ==
    {blocks[i].x0 : i \in {j \in 1..Len(blocks) : blocks[j].len > PB_SUBSTANTIAL}}

\* Counter.most_common: by count, ties in the order of first occurrence
MoreCommon(blocks, x, y) ==
    \/ Cardinality(X0Positions(blocks, x)) > Cardinality(X0Positions(blocks, y))
    \/ /\ Cardinality(X0Positions(blocks, x)) = Cardinality(X0Positions(blocks, y))
       /\ MinOf(X0Positions(blocks, x)) < MinOf(X0Positions(blocks, y))

MostCommonIn(blocks, S) ==
    CHOOSE x \in S : \A y \in S \ {x} : MoreCommon(blocks, x, y)

\* _calculate_margins: the attributes it leaves, given the fallback offset
CalculateMargins(blocks, fallback) ==
    LET Two(first, second) ==
            [body_margin |-> Some(Min2(first, second)),
             indent      |-> Some(Max2(first, second))]
        AtLeastTwo(first) ==
            Two(first, MostCommonIn(blocks, X0Clusters(blocks) \ {first}))
    IN  IF Cardinality(X0Clusters(blocks)) >= 2
        THEN AtLeastTwo(MostCommonIn(blocks, X0Clusters(blocks)))
        ELSE IF Cardinality(X0Clusters(blocks)) = 1
        THEN [body_margin |-> Some(MostCommonIn(blocks, X0Clusters(blocks))),
              indent      |-> Some(MostCommonIn(blocks, X0Clusters(blocks)) + fallback)]
        ELSE [body_margin |-> None, indent |-> None]

PB_calculate_margins(blocks) == CalculateMargins(blocks, PB_FALLBACK_INDENT)

PX_calculate_margins(blocks) == CalculateMargins(blocks, PX_FALLBACK_INDENT)

\* `self._body_margin` as a condition: neither None nor 0
TruthyNum(m) == IsSome(m) /\ Val(m) # 0

Abs(n) == IF n < 0 THEN 0 - n ELSE n

\* extract_paragraphs, first pass: headers and footers are skipped when a
\* body margin is known; all_blocks as positions in the section's blocks
PB_all_blocks(blocks, body_margin) ==
    SelectSeq([k \in 1..Len(blocks) |-> k],
              LAMBDA k : ~(TruthyNum(body_margin)
                           /\ Abs(blocks[k].x0 - Val(body_margin)) > HEADER_DISTANCE))

\* extract_section_with_blockquotes, the collection of all_blocks; the
\* subtraction needs a body margin
PX_all_blocks(blocks, body_margin) ==
    SelectSeq([k \in 1..Len(blocks) |-> k],
              LAMBDA k : ~(Abs(blocks[k].x0 - Val(body_margin)) > HEADER_DISTANCE))

\* block['x0'] - self._body_margin if self._body_margin else 0
PB_indent(b, body_margin) ==
    IF TruthyNum(body_margin) THEN b.x0 - Val(body_margin) ELSE 0

\* is_indented
PX_is_indented(b, body_margin) == b.x0 > Val(body_margin) + PX_INDENT_TOLERANCE

\* the indent of all_blocks[k] (k counted from 0)
PB_indent_at(blocks, all, body_margin, k) ==
    PB_indent(blocks[all[k + 1]], body_margin)

\* lines 728-735: the end of the run of indented blocks that starts at i
PB_quote_end(blocks, all, body_margin, i) ==
    MinOr({j \in (i + 1)..(Len(all) - 1) :
              PB_indent_at(blocks, all, body_margin, j) <= PB_QUOTE_INDENT}, Len(all))

\* lines 757-770: is_block_quote for the indented block at j
PB_is_block_quote(blocks, all, body_margin, j) ==
    \E k \in (j + 1)..(Len(all) - 1) :
       /\ PB_indent_at(blocks, all, body_margin, k) > PB_QUOTE_INDENT
       /\ \A q \in (j + 1)..(k - 1) :
             PB_indent_at(blocks, all, body_margin, q) > PB_BODY_INDENT

\* lines 750-775: the end of the body paragraph that starts at i
PB_body_end(blocks, all, body_margin, i) ==
    MinOr({j \in (i + 1)..(Len(all) - 1) :
              /\ PB_indent_at(blocks, all, body_margin, j) > PB_QUOTE_INDENT
              /\ PB_is_block_quote(blocks, all, body_margin, j)}, Len(all))

\* a variant that takes a single indented block for a block quote
PB_next_paragraph_single(blocks, all, body_margin, i) ==
    IF PB_indent_at(blocks, all, body_margin, i) > PB_QUOTE_INDENT
    THEN [type |-> "block_quote",
          blocks |-> SubSeq(all, i + 1, PB_quote_end(blocks, all, body_margin, i)),
          next |-> PB_quote_end(blocks, all, body_margin, i)]
    ELSE [type |-> "body",
          blocks |-> SubSeq(all, i + 1, PB_body_end(blocks, all, body_margin, i)),
          next |-> PB_body_end(blocks, all, body_margin, i)]

\* a variant whose body paragraph does not start with the current block
PB_next_paragraph_unseeded(blocks, all, body_margin, i) ==
    IF /\ PB_indent_at(blocks, all, body_margin, i) > PB_QUOTE_INDENT
       /\ PB_quote_end(blocks, all, body_margin, i) - i >= 2
    THEN [type |-> "block_quote",
          blocks |-> SubSeq(all, i + 1, PB_quote_end(blocks, all, body_margin, i)),
          next |-> PB_quote_end(blocks, all, body_margin, i)]
    ELSE [type |-> "body",
          blocks |-> SubSeq(all, i + 2, PB_body_end(blocks, all, body_margin, i)),
          next |-> PB_body_end(blocks, all, body_margin, i)]

\* lines 721-781: the paragraph one iteration of the while loop appends and
\* the index it leaves in i
PB_next_paragraph(blocks, all, body_margin, i) ==
    IF /\ PB_indent_at(blocks, all, body_margin, i) > PB_QUOTE_INDENT
       /\ PB_quote_end(blocks, all, body_margin, i) - i >= 2
    THEN [type |-> "block_quote",
          blocks |-> SubSeq(all, i + 1, PB_quote_end(blocks, all, body_margin, i)),
          next |-> PB_quote_end(blocks, all, body_margin, i)]
    ELSE [type |-> "body",
          blocks |-> SubSeq(all, i + 1, PB_body_end(blocks, all, body_margin, i)),
          next |-> PB_body_end(blocks, all, body_margin, i)]

\* extract_paragraphs is entered: _calculate_margins and the first pass
ExtractParagraphs ==
    /\ lay_pc = "idle"
    /\ lay_kind' = "cli"
    /\ \E blocks \in LayInputs :
       \E m \in {PB_calculate_margins(blocks)} :
          /\ lay_page_blocks' = blocks
          /\ lay_body_margin' = m.body_margin
          /\ lay_indent' = m.indent
          /\ lay_all_blocks' = PB_all_blocks(blocks, m.body_margin)
    /\ lay_pc' = "group"
    /\ UNCHANGED <<lay_i, lay_current, lay_paragraphs, lay_raised>>
    /\ UNCHANGED <<caVars, segVars, clVars, pbVars, runVars, sigVars, xpVars>>

\* extract_paragraphs, second pass: one iteration of the while loop
AppendParagraph ==
    /\ lay_kind = "cli"
    /\ lay_pc = "group"
    /\ lay_i < Len(lay_all_blocks)
    /\ \E p \in {PB_next_paragraph(lay_page_blocks, lay_all_blocks, lay_body_margin,
                                   lay_i)} :
          /\ lay_paragraphs' = Append(lay_paragraphs,
                                      [type |-> p.type, blocks |-> p.blocks])
          /\ lay_i' = p.next
    /\ UNCHANGED <<lay_kind, lay_pc, lay_page_blocks, lay_body_margin, lay_indent,
                   lay_all_blocks, lay_current, lay_raised>>
    /\ UNCHANGED <<caVars, segVars, clVars, pbVars, runVars, sigVars, xpVars>>

\* extract_paragraphs returns
ReturnParagraphs ==
    /\ lay_kind = "cli"
    /\ lay_pc = "group"
    /\ lay_i = Len(lay_all_blocks)
    /\ lay_pc' = "done"
    /\ UNCHANGED <<lay_kind, lay_page_blocks, lay_body_margin, lay_indent,
                   lay_all_blocks, lay_i, lay_current, lay_paragraphs, lay_raised>>
    /\ UNCHANGED <<caVars, segVars, clVars, pbVars, runVars, sigVars, xpVars>>

\* extract_section_with_blockquotes is entered: _calculate_margins and the
\* collection of all_blocks, which subtracts the body margin from an x0
ExtractSectionWithBlockquotes ==
    /\ lay_pc = "idle"
    /\ lay_kind' = "backend"
    /\ \E blocks \in LayInputs :
       \E m \in {PX_calculate_margins(blocks)} :
          /\ lay_page_blocks' = blocks
          /\ lay_body_margin' = m.body_margin
          /\ lay_indent' = m.indent
          /\ IF IsSome(m.body_margin)
             THEN /\ lay_all_blocks' = PX_all_blocks(blocks, m.body_margin)
                  /\ lay_pc' = "group"
                  /\ UNCHANGED lay_raised
             ELSE /\ lay_raised' = Some("TypeError")
                  /\ lay_pc' = "failed"
                  /\ UNCHANGED lay_all_blocks
    /\ UNCHANGED <<lay_i, lay_current, lay_paragraphs>>
    /\ UNCHANGED <<caVars, segVars, clVars, pbVars, runVars, sigVars, xpVars>>

\* extract_section_with_blockquotes: one iteration of the loop over all_blocks
GroupBlock ==
    /\ lay_kind = "backend"
    /\ lay_pc = "group"
    /\ lay_i < Len(lay_all_blocks)
    /\ IF PX_is_indented(lay_page_blocks[lay_all_blocks[lay_i + 1]], lay_body_margin)
       THEN /\ lay_current' = Append(lay_current, lay_all_blocks[lay_i + 1])
            /\ UNCHANGED lay_paragraphs
       ELSE /\ lay_paragraphs' =
                  IF Len(lay_current) >= 2
                  THEN Append(lay_paragraphs,
                              [type |-> "block_quote", blocks |-> lay_current])
                  ELSE lay_paragraphs
            /\ lay_current' = <<>>
    /\ lay_i' = lay_i + 1
    /\ UNCHANGED <<lay_kind, lay_pc, lay_page_blocks, lay_body_margin, lay_indent,
                   lay_all_blocks, lay_raised>>
    /\ UNCHANGED <<caVars, segVars, clVars, pbVars, runVars, sigVars, xpVars>>

\* extract_section_with_blockquotes: the last group, and the return
ReturnSection ==
    /\ lay_kind = "backend"
    /\ lay_pc = "group"
    /\ lay_i = Len(lay_all_blocks)
    /\ lay_paragraphs' =
          IF Len(lay_current) >= 2
          THEN Append(lay_paragraphs, [type |-> "block_quote", blocks |-> lay_current])
          ELSE lay_paragraphs
    /\ lay_pc' = "done"
    /\ UNCHANGED <<lay_kind, lay_page_blocks, lay_body_margin, lay_indent,
                   lay_all_blocks, lay_i, lay_current, lay_raised>>
    /\ UNCHANGED <<caVars, segVars, clVars, pbVars, runVars, sigVars, xpVars>>

InitLayout ==
    /\ IdleAnalyzer
    /\ IdleSegment
    /\ IdleParse
    /\ IdleRun
    /\ IdleLayout
    /\ IdleSignal
    /\ IdlePropositions

NextLayout ==
    \/ ExtractParagraphs
    \/ AppendParagraph
    \/ ReturnParagraphs
    \/ ExtractSectionWithBlockquotes
    \/ GroupBlock
    \/ ReturnSection

SpecLayout == InitLayout /\ [][NextLayout]_vars

\* ------------------------------------------------------------------------
\* Properties of the layout grouping
\* ------------------------------------------------------------------------

\* the block at a position is indented, as the running pipeline tests it
LayIndented(pos) ==
    IF lay_kind = "cli"
    THEN PB_indent(lay_page_blocks[pos], lay_body_margin) > PB_QUOTE_INDENT
    ELSE PX_is_indented(lay_page_blocks[pos], lay_body_margin)

\* all_blocks[a..b] is a maximal run of consecutive indented blocks
LayMaximalRun(a, b) ==
    /\ \A k \in a..b : LayIndented(lay_all_blocks[k])
    /\ a = 1 \/ ~LayIndented(lay_all_blocks[a - 1])
    /\ b = Len(lay_all_blocks) \/ ~LayIndented(lay_all_blocks[b + 1])

LayBlockQuotes ==
    {lay_paragraphs[k].blocks :
        k \in {j \in 1..Len(lay_paragraphs) : lay_paragraphs[j].type = "block_quote"}}

LayBodies ==
    {lay_paragraphs[k].blocks :
        k \in {j \in 1..Len(lay_paragraphs) : lay_paragraphs[j].type = "body"}}

InSeq(x, seq) == \E k \in 1..Len(seq) : seq[k] = x

LayGrouped == Flatten([k \in 1..Len(lay_paragraphs) |-> lay_paragraphs[k].blocks])

\* the grouping loop of extract_paragraphs runs or has returned
LayGrouping == lay_kind = "cli" /\ lay_pc \in {"group", "done"}

\* C29: the paragraphs extract_paragraphs has appended partition the blocks
\* the loop has passed, in the order of the blocks; no paragraph is empty;
\* two block-quote paragraphs are never adjacent; the loop index stays within
\* the blocks, each paragraph takes at least one block, and when the loop has
\* returned every block is in a paragraph.
C29_ParagraphsPartitionBlocks ==
    LayGrouping =>
       /\ lay_i \in 0..Len(lay_all_blocks)
       /\ LayGrouped = SubSeq(lay_all_blocks, 1, lay_i)
       /\ \A k \in 1..Len(lay_paragraphs) : lay_paragraphs[k].blocks # <<>>
       /\ \A k \in 1..(Len(lay_paragraphs) - 1) :
             ~(/\ lay_paragraphs[k].type = "block_quote"
               /\ lay_paragraphs[k + 1].type = "block_quote")
       /\ lay_pc = "done" => LayGrouped = lay_all_blocks

\* extract_paragraphs has returned a body paragraph, a block quote and a body
\* paragraph again, of four blocks in all
C29_Witness ==
    /\ lay_kind = "cli"
    /\ lay_pc = "done"
    /\ Len(lay_all_blocks) = 4
    /\ Len(lay_paragraphs) = 3
    /\ lay_paragraphs[2].type = "block_quote"

\* C29 (termination): every iteration of the grouping loop moves the index
\* forward and not past the last block, so the loop ends after at most as
\* many iterations as there are blocks.
C29_LoopAdvances ==
    [][AppendParagraph => (lay_i' > lay_i /\ lay_i' <= Len(lay_all_blocks))]_vars

\* the grouping under weak fairness of its steps
SpecLayoutFair == SpecLayout /\ WF_vars(AppendParagraph) /\ WF_vars(ReturnParagraphs)

\* C29 (termination): a grouping loop that has been entered returns
C29_GroupingReturns ==
    (lay_kind = "cli" /\ lay_pc = "group") ~> (lay_pc = "done")

\* C16: layout segmentation never ends in an error, whatever the blocks;
\* when the substantial blocks give exactly one margin cluster, the body
\* margin is that cluster and the indent threshold is the margin plus 36;
\* with fewer than two clusters a result is still returned.
C16_LayoutNeverFails ==
    /\ lay_raised = None
    /\ lay_pc # "failed"
    /\ (lay_pc # "idle" /\ Cardinality(X0Clusters(lay_page_blocks)) = 1)
          => \A x \in X0Clusters(lay_page_blocks) :
                /\ lay_body_margin = Some(x)
                /\ lay_indent = Some(x + 36)

\* ------------------------------------------------------------------------
\* Signal detection: BriefParser._find_signal_before,
\* BriefExtractor._find_signal_before and CitationAnalyzer._extract_signal
\* ------------------------------------------------------------------------

\* the texts that precede a citation
SignalInputs ==
    {"The rule is clear. See also ", "It holds otherwise. But see ",
     "That is settled. See, e.g., ", "See ", "The court must oversee ",
     "They rebut see ", "There is no signal here. ", "ACCORD", "as shown, e.g.,  ",
     "See generally the discussion in ", ""}

\* BriefExtractor._find_signal_before: (signal, signal_start) for the first
\* signal of SIGNALS that ends the right-stripped look-back text; SIGNALS is
\* the list of parse_brief.py in the same order
EP_find_signal_before(txt, pos) ==
    LET lookback == Min2(pos, PB_SIGNAL_LOOKBACK)
        Pick(preceding, ks) ==
            IF ks = {} THEN None
            ELSE Some(<<PB_SIGNALS_SORTED[MinOf(ks)],
                        pos - lookback + Len(preceding)
                           - Len(PB_SIGNALS_SORTED[MinOf(ks)])>>)
        Ending(preceding) ==
            Pick(preceding,
                 {k \in 1..Len(PB_SIGNALS_SORTED) :
                     EndsWith(Lower(preceding), PB_SIGNALS_SORTED[k])})
    IN  Ending(RStrip(Slice(txt, pos - lookback, pos)))

\* the call: the text and the position of the citation in it
CallSignal ==
    /\ sig_pc = "idle"
    /\ \E pre \in SignalInputs, kind \in {"parse_brief", "extractor", "analyzer"} :
          /\ sig_text' = pre \o "Doe v. Roe, 1 U.S. 2 (2000)."
          /\ sig_kind' = kind
          /\ \E pos \in 0..Len(pre) : sig_pos' = pos
    /\ sig_pc' = "call"
    /\ UNCHANGED sig_signal
    /\ UNCHANGED <<caVars, segVars, clVars, pbVars, runVars, layVars, xpVars>>

FindSignalBefore ==
    /\ sig_pc = "call"
    /\ sig_kind = "parse_brief"
    /\ sig_signal' = PB_find_signal_before(sig_text, sig_pos)
    /\ sig_pc' = "done"
    /\ UNCHANGED <<sig_kind, sig_text, sig_pos>>
    /\ UNCHANGED <<caVars, segVars, clVars, pbVars, runVars, layVars, xpVars>>

ExtractorFindSignalBefore ==
    /\ sig_pc = "call"
    /\ sig_kind = "extractor"
    /\ sig_signal' = EP_find_signal_before(sig_text, sig_pos)
    /\ sig_pc' = "done"
    /\ UNCHANGED <<sig_kind, sig_text, sig_pos>>
    /\ UNCHANGED <<caVars, segVars, clVars, pbVars, runVars, layVars, xpVars>>

\* the analyzer hands _extract_signal the text before the citation
ExtractSignal ==
    /\ sig_pc = "call"
    /\ sig_kind = "analyzer"
    /\ sig_signal' = CA_extract_signal(Slice(sig_text, 0, sig_pos))
    /\ sig_pc' = "done"
    /\ UNCHANGED <<sig_kind, sig_text, sig_pos>>
    /\ UNCHANGED <<caVars, segVars, clVars, pbVars, runVars, layVars, xpVars>>

InitSignal ==
    /\ IdleAnalyzer
    /\ IdleSegment
    /\ IdleParse
    /\ IdleRun
    /\ IdleLayout
    /\ IdleSignal
    /\ IdlePropositions

NextSignal ==
    \/ CallSignal
    \/ FindSignalBefore
    \/ ExtractorFindSignalBefore
    \/ ExtractSignal

SpecSignal == InitSignal /\ [][NextSignal]_vars

\* the look-back window, right-trimmed and lower-cased
SigWindow ==
    Lower(RStrip(Slice(sig_text, sig_pos - Min2(sig_pos, PB_SIGNAL_LOOKBACK), sig_pos)))

\* the members of the implementation's vocabulary the window ends with
SigEnding ==
    {v \in IF sig_kind = "analyzer" THEN {CA_SIGNALS[k] : k \in 1..Len(CA_SIGNALS)}
           ELSE {PB_SIGNALS_SORTED[k] : k \in 1..Len(PB_SIGNALS_SORTED)} :
        EndsWith(SigWindow, v)}

\* the signal a call returned
SigReturned ==
    IF sig_kind = "extractor" /\ IsSome(sig_signal) THEN Some(Val(sig_signal)[1])
    ELSE sig_signal

\* C21: signal detection returns the longest member of the vocabulary that
\* the right-trimmed 30-character window before the citation ends with,
\* compared case-insensitively, and no signal when the window ends with none.
C21_LongestSignal ==
    sig_pc = "done" =>
       IF SigEnding = {} THEN SigReturned = None
       ELSE \A v \in SigEnding :
               (\A w \in SigEnding : Len(w) <= Len(v)) => SigReturned = Some(v)

\* the same for the two _find_signal_before functions
C21_LongestSignalBefore ==
    sig_kind # "analyzer" => C21_LongestSignal

\* ------------------------------------------------------------------------
\* parse_brief.py: extract_propositions and
\* _extract_proposition_from_sentence
\* ------------------------------------------------------------------------

\* the longest unit sequence of a generated document
MaxUnits == 3

\* meaningful_threshold
XP_THRESHOLD == 20

\* the shortest quotation _has_quotation counts
XP_QUOTE_MIN == 15

\* the sentences and block quotes of parsed['argument']['paragraphs']: the
\* text before the citations, the citations with the text between them, and
\* the text after the last one
XpUnitPool ==
    << [type |-> "sentence", pre |-> "The rule is clear.", cites |-> <<>>, post |-> ""],
       [type |-> "sentence", pre |-> "", cites |-> <<"Doe v. Roe, 1 U.S. 100 (2000)">>,
        post |-> "."],
       [type |-> "sentence", pre |-> "", cites |-> <<"Poe v. Moe, 3 U.S. 4 (2001)">>,
        post |-> "."],
       [type |-> "sentence", pre |-> "See ", cites |-> <<"Lee v. Ray, 6 U.S. 7 (2002)">>,
        post |-> " (holding that the statute applies)."],
       [type |-> "sentence", pre |-> "The court said \"the statute applies here\". See ",
        cites |-> <<"Lee v. Ray, 6 U.S. 7 (2002)">>,
        post |-> " (holding that the statute applies)."],
       [type |-> "sentence", pre |-> "The court held -- ",
        cites |-> <<"Doe v. Roe, 1 U.S. 100 (2000)">>,
        post |-> " -- that the claim fails."],
       [type |-> "sentence", pre |-> "That claim was rejected. See ",
        cites |-> <<"Doe v. Roe, 1 U.S. 100 (2000)", "; ", "Poe v. Moe, 3 U.S. 4 (2001)">>,
        post |-> "."],
       [type |-> "block_quote", pre |-> "the statute applies to all such claims ",
        cites |-> <<"Doe v. Roe, 1 U.S. 100 (2000)">>, post |-> ""],
       [type |-> "sentence", pre |-> "Thus, ",
        cites |-> <<"Doe v. Roe, 1 U.S. 100 (2000)">>, post |-> "."] >>

RECURSIVE XpJoin(_)
XpJoin(parts) == IF parts = <<>> THEN "" ELSE Head(parts) \o XpJoin(Tail(parts))

XpUnitText(u) == u.pre \o XpJoin(u.cites) \o u.post

\* the citation dicts of a unit: the odd members of cites are citations
XpCitations(u) ==
    LET txt == XpUnitText(u)
        Start(k) == Len(u.pre) + Len(XpJoin(SubSeq(u.cites, 1, 2 * k - 2)))
        Cite(k) ==
            [text          |-> u.cites[2 * k - 1],
             span          |-> <<Start(k), Start(k) + Len(u.cites[2 * k - 1])>>,
             signal        |-> PB_find_signal_before(txt, Start(k)),
             parenthetical |-> PB_find_parenthetical_after(
                                  txt, Start(k) + Len(u.cites[2 * k - 1]))]
    IN  [k \in 1..(Len(u.cites) + 1) \div 2 |-> Cite(k)]

XpUnit(u) ==
    [type |-> u.type, text |-> XpUnitText(u), intro |-> None,
     citations |-> XpCitations(u)]

XpDocs ==
    UNION {[1..n -> {XpUnit(XpUnitPool[k]) : k \in 1..Len(XpUnitPool)}] :
             n \in 0..MaxUnits}

\* _has_quotation: an opening quotation mark, at least 15 characters that
\* are no quotation mark, and a closing quotation mark
XP_has_quotation(txt) ==
    \E i \in 0..Len(txt) - 1 :
       /\ At(txt, i) \in QuoteChars
       /\ FirstIn(txt, i + 1, QuoteChars) < Len(txt)
       /\ FirstIn(txt, i + 1, QuoteChars) - (i + 1) >= XP_QUOTE_MIN

XP_prop_type(txt) == IF XP_has_quotation(txt) THEN "quote" ELSE "statement"

\* a variant without the mid-sentence rule
XP_mid_sentence_never(text_before, text_after) == FALSE

\* lines 1547-1549: the mid-sentence citation pattern
XP_mid_sentence(text_before, text_after) ==
    EndsWith(text_before, "--") /\ StartsWith(text_after, "--")

\* _extract_proposition_from_sentence: <<proposition_text, proposition_type>>
XP_extract_proposition_from_sentence(sent_text, citations, prev_sentence) ==
    LET first_cite ==
            citations[MinOf({k \in 1..Len(citations) :
                               \A j \in 1..Len(citations) :
                                  citations[k].span[1] <= citations[j].span[1]})]
        end_cite ==
            citations[MinOf({k \in 1..Len(citations) :
                               \A j \in 1..Len(citations) :
                                  citations[k].span[2] >= citations[j].span[2]})]
        Fallback(text_before) ==
            IF Len(text_before) >= XP_THRESHOLD
            THEN <<Some(text_before), XP_prop_type(text_before)>>
            ELSE IF TruthyStr(prev_sentence)
            THEN <<prev_sentence, XP_prop_type(Val(prev_sentence))>>
            ELSE IF text_before # "" THEN <<Some(text_before), "statement">>
            ELSE <<None, "">>
        Unsignalled(text_before, signal) ==
            Fallback(RStripChars(
                IF TruthyStr(signal) /\ EndsWith(Lower(text_before), Lower(Val(signal)))
                THEN Strip(Slice(text_before, 0, Len(text_before) - Len(Val(signal))))
                ELSE text_before,
                {".", ",", ";", ":", "-", " "}))
        Joined(prop_text) == <<Some(prop_text), XP_prop_type(prop_text)>>
        Marked(text_before, text_after) ==
            IF XP_mid_sentence(text_before, text_after)
            THEN Joined(Strip(Strip(Slice(text_before, 0, Len(text_before) - 2))
                              \o " " \o Strip(From(text_after, 2))))
            ELSE Unsignalled(text_before, first_cite.signal)
    IN  IF citations = <<>> THEN <<None, "">>
        ELSE Marked(Strip(Slice(sent_text, 0, first_cite.span[1])),
                   Strip(From(sent_text, end_cite.span[2])))

\* lines 1497-1511: the parenthetical propositions of a sentence's citations
XP_paren_props(citations) ==
    LET Signalled ==
            SelectSeq(citations,
                      LAMBDA c : TruthyStr(c.signal) /\ TruthyStr(c.parenthetical))
    IN  [k \in 1..Len(Signalled) |->
           [text |-> Val(Signalled[k].parenthetical), type |-> "parenthetical",
            citations |-> <<Signalled[k]>>]]

StartPropositions ==
    /\ xp_pc = "idle"
    /\ \E d \in XpDocs : xp_units' = d
    /\ xp_pc' = "loop"
    /\ xp_i' = 0
    /\ prev_sentence_text' = None
    /\ propositions' = <<>>
    /\ UNCHANGED <<caVars, segVars, clVars, pbVars, runVars, layVars, sigVars>>

\* lines 1466-1476: a block-quote paragraph
PropositionOfBlockQuote ==
    /\ xp_pc = "loop"
    /\ xp_i < Len(xp_units)
    /\ xp_units[xp_i + 1].type = "block_quote"
    /\ \E para \in {xp_units[xp_i + 1]} :
          /\ propositions' =
                IF para.citations # <<>>
                THEN Append(propositions,
                            [text |-> para.text, intro |-> para.intro,
                             type |-> "block_quote", citations |-> para.citations])
                ELSE propositions
          /\ prev_sentence_text' = Some(para.text)
    /\ xp_i' = xp_i + 1
    /\ UNCHANGED <<xp_pc, xp_units>>
    /\ UNCHANGED <<caVars, segVars, clVars, pbVars, runVars, layVars, sigVars>>

\* lines 1479-1513: a sentence of a body paragraph
PropositionOfSentence ==
    /\ xp_pc = "loop"
    /\ xp_i < Len(xp_units)
    /\ xp_units[xp_i + 1].type = "sentence"
    /\ \E sent \in {xp_units[xp_i + 1]} :
          /\ \E r \in {XP_extract_proposition_from_sentence(
                          sent.text, sent.citations, prev_sentence_text)} :
                propositions' =
                   IF sent.citations # <<>> /\ TruthyStr(r[1])
                   THEN propositions \o XP_paren_props(sent.citations)
                        \o <<[text |-> Val(r[1]), type |-> r[2],
                              citations |-> sent.citations]>>
                   ELSE propositions
          /\ prev_sentence_text' = Some(sent.text)
    /\ xp_i' = xp_i + 1
    /\ UNCHANGED <<xp_pc, xp_units>>
    /\ UNCHANGED <<caVars, segVars, clVars, pbVars, runVars, layVars, sigVars>>

ReturnPropositions ==
    /\ xp_pc = "loop"
    /\ xp_i = Len(xp_units)
    /\ xp_pc' = "done"
    /\ UNCHANGED <<xp_units, xp_i, prev_sentence_text, propositions>>
    /\ UNCHANGED <<caVars, segVars, clVars, pbVars, runVars, layVars, sigVars>>

InitPropositions ==
    /\ IdleAnalyzer
    /\ IdleSegment
    /\ IdleParse
    /\ IdleRun
    /\ IdleLayout
    /\ IdleSignal
    /\ IdlePropositions

NextPropositions ==
    \/ StartPropositions
    \/ PropositionOfBlockQuote
    \/ PropositionOfSentence
    \/ ReturnPropositions

SpecPropositions == InitPropositions /\ [][NextPropositions]_vars

\* the text before the first citation of a sentence and after its last one
XpBefore(sent) == Strip(Slice(sent.text, 0, sent.citations[1].span[1]))

XpAfter(sent) == Strip(From(sent.text, sent.citations[Len(sent.citations)].span[2]))

\* a sentence with the double-hyphen marker on both sides of its citations
XpMidSentence(sent) ==
    /\ sent.type = "sentence"
    /\ sent.citations # <<>>
    /\ EndsWith(XpBefore(sent), "--")
    /\ StartsWith(XpAfter(sent), "--")

\* C22: when the text before the citation ends with "--" and the text after
\* it starts with "--", the proposition of the sentence is the text before
\* the first marker joined with the text after the second one, whatever the
\* signal, the length of the text before the citation and the previous
\* sentence are.
C22_MidSentenceProposition ==
    [][(xp_pc = "loop" /\ xp_i' = xp_i + 1 /\ XpMidSentence(xp_units[xp_i + 1]))
          => \A sent \in {xp_units[xp_i + 1]} :
                /\ Len(propositions') >= Len(propositions) + 1
                /\ propositions'[Len(propositions')].citations = sent.citations
                /\ propositions'[Len(propositions')].text =
                      Strip(Slice(XpBefore(sent), 0, Len(XpBefore(sent)) - 2))
                         \o " " \o Strip(From(XpAfter(sent), 2))
      ]_vars

C22_Witness ==
    /\ xp_i >= 2
    /\ XpMidSentence(xp_units[xp_i])
    /\ xp_units[xp_i - 1].citations = <<>>
    /\ Len(XpBefore(xp_units[xp_i])) < XP_THRESHOLD
    /\ propositions # <<>>
    /\ propositions[Len(propositions)].text = "The court held that the claim fails."

\* C23: every citation of a sentence that carries both a signal and a
\* parenthetical yields a proposition of kind parenthetical that holds the
\* parenthetical content and that citation, also when the sentence has no
\* usable text before its first citation and no previous sentence exists.
C23_ParentheticalProposition ==
    [][(xp_pc = "loop" /\ xp_i' = xp_i + 1 /\ xp_units[xp_i + 1].type = "sentence")
          => \A k \in 1..Len(xp_units[xp_i + 1].citations) :
                \A c \in {xp_units[xp_i + 1].citations[k]} :
                   (TruthyStr(c.signal) /\ TruthyStr(c.parenthetical))
                      => \E j \in Len(propositions) + 1..Len(propositions') :
                            /\ propositions'[j].type = "parenthetical"
                            /\ propositions'[j].text = Val(c.parenthetical)
                            /\ propositions'[j].citations = <<c>>
      ]_vars

\* a citation sentence with less than 20 characters before its first citation
XpCitationOnly(sent) ==
    /\ sent.type = "sentence"
    /\ sent.citations # <<>>
    /\ ~XpMidSentence(sent)
    /\ Len(XpBefore(sent)) < XP_THRESHOLD

\* C27: when a sentence that holds a proposition is followed by several
\* citation-only sentences, every one of them receives the text of the
\* proposition sentence; the text of a citation-only sentence is never the
\* proposition of the citation sentence after it.
C27_StringOfCitationSentences ==
    [][(/\ xp_pc = "loop" /\ xp_i' = xp_i + 1 /\ xp_i >= 2
        /\ xp_units[xp_i - 1].type = "sentence"
        /\ xp_units[xp_i - 1].citations = <<>>
        /\ XpCitationOnly(xp_units[xp_i])
        /\ XpCitationOnly(xp_units[xp_i + 1]))
          => /\ propositions' # <<>>
             /\ propositions'[Len(propositions')].citations
                   = xp_units[xp_i + 1].citations
             /\ propositions'[Len(propositions')].text = xp_units[xp_i - 1].text
      ]_vars

====
